---- MODULE Spec2Model ----
(***************************************************************************)
(* Text conferencing server (server.c): client table, session table, the  *)
(* acceptor loop of main, one client_thread per login and the              *)
(* inactivity_monitor.  Every critical section (the code between           *)
(* pthread_mutex_lock and pthread_mutex_unlock) is one action; the steps   *)
(* a thread takes outside the lock (accept, recv_message, the start of     *)
(* client_thread) are actions of their own.  SpecLock splits the critical  *)
(* section of a broadcast at every send_message.                           *)
(*                                                                         *)
(* File transfer (deliver.c, server.c): the stop-and-wait sender and the   *)
(* receiver over UDP, with datagrams as byte sequences.                    *)
(***************************************************************************)
EXTENDS Integers, Sequences, FiniteSets, TLC

\* ------------------------------------------------------------------ bounds
\* Table sizes of the program, scaled down (100 and 100 in the source).
MAX_CLIENTS == 2
MAX_SESSIONS == 2
\* Descriptor numbers the accept call can return, handler threads created in a run.
MaxFd == 2
MaxThreads == 4
\* Handler threads created in a run of Spec.
RaceThreads == 2
\* The clock advances in steps of TickStep seconds up to MaxTime.
TickStep == 61
MaxTime == 61

\* The two steps of the clock of SpecReaper.
ShortTick == 1
LongTick == 60

\* ------------------------------------------------------- program constants
INACTIVITY_THRESHOLD == 60

LOGIN == 1
LO_ACK == 2
LO_NAK == 3
EXIT == 4
JOIN == 5
JN_ACK == 6
JN_NAK == 7
LEAVE_SESS == 8
NEW_SESS == 9
NS_ACK == 10
MESSAGE == 11
QUERY == 12
QU_ACK == 13
\* A type outside the enumeration, for the final else of the dispatch.
UNKNOWN_TYPE == 14

user_db ==
  << [username |-> "jill",  password |-> "eW94dsol"],
     [username |-> "jack",  password |-> "432wlFd"],
     [username |-> "alice", password |-> "12345"],
     [username |-> "bob",   password |-> "qwerty"],
     [username |-> "",      password |-> ""] >>

\* ------------------------------------------------------------------ inputs
\* (source, data) pairs of the LOGIN frames the peers send.
LoginInputs ==
  { <<"alice", "12345">>, <<"bob", "qwerty">>, <<"alice", "wrong">>,
    <<"bob", "12345">>, <<"", "">> }
\* Session names the peers put in JOIN, NEW_SESS, LEAVE_SESS and MESSAGE.
SessionInputs == {"r1", "r2"}
\* Values the peers put in the source field of a MESSAGE frame.
SourceInputs == {"alice", "eve"}
\* Type of a first frame that is not LOGIN, and of a frame no branch handles.
OtherTypes == {UNKNOWN_TYPE}

Slots == 0 .. (MAX_CLIENTS - 1)
FDs == 1 .. MaxFd
Tids == 1 .. MaxThreads

VARIABLES
  clients,    \* client_t clients[MAX_CLIENTS]
  sessions,   \* session_t sessions[0 .. num_sessions-1]
  threads,    \* the client_thread instances: locals and position
  acc,        \* the accept loop of main: position and client_sock
  fdt,        \* descriptor table of the server process
  now,        \* time(NULL)
  sent,       \* frames written by send_message in the last step
  log,        \* lines printed in the last step
  mutex,      \* pthread_mutex_t mutex: the thread that holds it
  cursor,     \* per client_thread: the broadcast it is in and the loop index
  wire,       \* per descriptor: the broadcast frames written to it, in order
  sender,     \* the file sender (deliver.c): position and locals of main
  receiver,   \* the file receiver (server.c of the file transfer): same
  net,        \* datagrams in flight, per direction
  disk,       \* the files under ./saved/
  ev,         \* what the file sender or receiver did in the last step
  client,     \* the conferencing client (client.c): globals and positions
  conn,       \* the connection of the client: frames in flight, server end
  backlog     \* the connections made to the listening socket, in order

\* The conferencing server as the critical sections see it.
server == <<clients, sessions, threads, acc, fdt, now, sent, log>>
\* The lock of the conferencing server, for the steps inside a critical section.
locking == <<mutex, cursor, wire>>
\* The file transfer.
transfer == <<sender, receiver, net, disk, ev>>
\* The peers of the conferencing server.
remote == <<client, conn, backlog>>

vars == <<clients, sessions, threads, acc, fdt, now, sent, log,
          mutex, cursor, wire, sender, receiver, net, disk, ev,
          client, conn, backlog>>

num_sessions == Len(sessions)

\* --------------------------------------------------------------- messages
Frame(t, src, sess, d) == [type |-> t, source |-> src, session |-> sess, data |-> d]

\* memset(&m, 0, sizeof m); m.type = t; copy text into m.data
Reply(t, d) == Frame(t, "", "", d)

\* One call of send_message(sockfd, msg).
Send(fd, m) == [fd |-> fd, msg |-> m]

\* ------------------------------------------------------- descriptor table
\* st: is the number in use; peer: the principal that logged in over the
\* connection the number names ("" before the login).
ClosedFd == [st |-> "closed", peer |-> ""]

\* close(fd): the number becomes free for the next accept.
Close(f, fd) == IF fd \in DOMAIN f THEN [f EXCEPT ![fd] = ClosedFd] ELSE f

FreeFds(f) == {d \in FDs : f[d].st = "closed"}

\* accept returns the lowest unused descriptor number.
LowestFree(f) == CHOOSE d \in FreeFds(f) : \A e \in FreeFds(f) : d <= e

\* read on fd fails with EBADF: the number names no open descriptor.
BadFd(f, fd) == fd \notin DOMAIN f \/ f[fd].st # "open"

\* ---------------------------------------------------------------- lookups
\* authenticate_user comparing the username only.
authenticate_user_NameOnly(username, password) ==
  IF \E i \in 1 .. (Len(user_db) - 1) : user_db[i].username = username THEN 1 ELSE 0

authenticate_user(username, password) ==
  LET Stop == CHOOSE n \in 1 .. Len(user_db) : /\ user_db[n].username = ""
                                               /\ \A k \in 1 .. (n - 1) : user_db[k].username # ""
  IN  IF \E i \in 1 .. (Stop - 1) : /\ user_db[i].username = username
                                    /\ user_db[i].password = password
      THEN 1 ELSE 0

find_free_client_slot(cl) ==
  IF \E i \in Slots : ~cl[i].active
  THEN CHOOSE i \in Slots : ~cl[i].active /\ \A j \in Slots : j < i => cl[j].active
  ELSE -1

Matches(cl, i, id) == cl[i].active /\ cl[i].clientID = id

\* The scan of find_client_by_id started at slot 1 instead of slot 0.
find_client_by_id_FromOne(cl, id) ==
  IF \E i \in Slots : i >= 1 /\ Matches(cl, i, id)
  THEN CHOOSE i \in Slots : /\ i >= 1
                            /\ Matches(cl, i, id)
                            /\ \A j \in Slots : (j >= 1 /\ j < i) => ~Matches(cl, j, id)
  ELSE -1

find_client_by_id(cl, id) ==
  IF \E i \in Slots : Matches(cl, i, id)
  THEN CHOOSE i \in Slots : Matches(cl, i, id) /\ \A j \in Slots : j < i => ~Matches(cl, j, id)
  ELSE -1

\* find_session returning the first entry of a table that is not empty.
find_session_First(ss, sid) == IF Len(ss) > 0 THEN 0 ELSE -1

\* Index into the session table, counted from 0 as in the source; -1 if absent.
find_session(ss, sid) ==
  IF \E i \in 1 .. Len(ss) : ss[i].sessionID = sid
  THEN (CHOOSE i \in 1 .. Len(ss) :
          ss[i].sessionID = sid /\ \A j \in 1 .. (i - 1) : ss[j].sessionID # sid) - 1
  ELSE -1

IndexOf(seq, x) ==
  IF \E i \in 1 .. Len(seq) : seq[i] = x
  THEN CHOOSE i \in 1 .. Len(seq) : seq[i] = x /\ \A j \in 1 .. (i - 1) : seq[j] # x
  ELSE 0

RemoveAt(seq, i) == [k \in 1 .. (Len(seq) - 1) |-> IF k < i THEN seq[k] ELSE seq[k + 1]]

Range(seq) == {seq[i] : i \in 1 .. Len(seq)}

\* --------------------------------------------------------- session table
\* create_session without the test for an existing session of that name.
create_session_NoExistsCheck(ss, sid) ==
  IF Len(ss) >= MAX_SESSIONS THEN [ret |-> -1, ss |-> ss]
  ELSE [ret |-> Len(ss), ss |-> Append(ss, [sessionID |-> sid, members |-> <<>>])]

create_session(ss, sid) ==
  IF Len(ss) >= MAX_SESSIONS THEN [ret |-> -1, ss |-> ss]
  ELSE IF find_session(ss, sid) # -1 THEN [ret |-> -1, ss |-> ss]
  ELSE [ret |-> Len(ss), ss |-> Append(ss, [sessionID |-> sid, members |-> <<>>])]

add_client_to_session(ss, cid, sid) ==
  LET sidx == find_session(ss, sid) IN
  IF sidx < 0 THEN [ret |-> -1, ss |-> ss]
  ELSE IF cid \in Range(ss[sidx + 1].members) THEN [ret |-> 0, ss |-> ss]
  ELSE IF Len(ss[sidx + 1].members) < MAX_CLIENTS
       THEN [ret |-> 0,
             ss |-> [ss EXCEPT ![sidx + 1].members = Append(@, cid)]]
       ELSE [ret |-> -1, ss |-> ss]

\* remove_client_from_session without the removal of a session left empty.
remove_client_from_session_KeepsEmpty(ss, cid, sid) ==
  LET sidx == find_session(ss, sid) IN
  IF sidx < 0 THEN ss
  ELSE LET mem   == ss[sidx + 1].members
           found == IndexOf(mem, cid)
       IN  [ss EXCEPT ![sidx + 1].members = IF found # 0 THEN RemoveAt(mem, found) ELSE mem]

remove_client_from_session(ss, cid, sid) ==
  LET sidx == find_session(ss, sid) IN
  IF sidx < 0 THEN ss
  ELSE LET mem   == ss[sidx + 1].members
           found == IndexOf(mem, cid)
           mem2  == IF found # 0 THEN RemoveAt(mem, found) ELSE mem
       IN  IF Len(mem2) = 0
           THEN RemoveAt(ss, sidx + 1)
           ELSE [ss EXCEPT ![sidx + 1].members = mem2]

\* for (i = 0; i < session_count; i++) remove_client_from_session(id, sessions[i])
RECURSIVE RemoveFromAll(_, _, _)
RemoveFromAll(ss, cid, joined) ==
  IF joined = <<>> THEN ss
  ELSE RemoveFromAll(remove_client_from_session(ss, cid, Head(joined)), cid, Tail(joined))

RECURSIVE BroadcastFrom(_, _, _, _)
BroadcastFrom(mem, cl, msg, i) ==
  IF i > Len(mem) THEN <<>>
  ELSE LET cidx == find_client_by_id(cl, mem[i]) IN
       (IF cidx >= 0 THEN <<Send(cl[cidx].sockfd, msg)>> ELSE <<>>)
         \o BroadcastFrom(mem, cl, msg, i + 1)

\* The send_message calls of broadcast_message, in order.
broadcast_message(ss, cl, sid, msg) ==
  LET sidx == find_session(ss, sid) IN
  IF sidx < 0 THEN <<>> ELSE BroadcastFrom(ss[sidx + 1].members, cl, msg, 1)

RECURSIVE ActiveIDs(_, _)
ActiveIDs(cl, i) ==
  IF i >= MAX_CLIENTS THEN <<>>
  ELSE (IF cl[i].active THEN <<cl[i].clientID>> ELSE <<>>) \o ActiveIDs(cl, i + 1)

\* The text of QU_ACK, kept as its two lists.
build_list(cl, ss) ==
  [users |-> ActiveIDs(cl, 0),
   sessions |-> [i \in 1 .. Len(ss) |-> <<ss[i].sessionID, Len(ss[i].members)>>]]


\* ------------------------------------------------------------------- state
NoClient == [sockfd |-> 0, clientID |-> "", sessions |-> <<>>, active |-> FALSE,
             last_active |-> 0]

NoThread == [pc |-> "none", my_index |-> 0, clientID |-> "", sockfd |-> 0, from |-> ""]

\* A thread that has returned from client_thread.
DoneThread == [NoThread EXCEPT !.pc = "done"]

\* PTHREAD_MUTEX_INITIALIZER: nobody holds the mutex.
Free == <<"free", 0>>

\* A client_thread that is not inside broadcast_message.
NoCursor == [b |-> 0, i |-> 0, session |-> "", data |-> ""]

NoWire == [next |-> 1, at |-> [d \in FDs |-> <<>>]]

\* The file sender and the file receiver before they are started.
NoSender == [pc |-> "off", filename |-> <<>>, file_size |-> 0, total_frag |-> 0,
             frag_no |-> 0, pos |-> 0, frags |-> <<>>]

NoReceiver == [pc |-> "off", fp |-> <<>>, opens |-> 0, closes |-> 0, acks |-> 0,
               got |-> {}]

\* toR: datagrams on their way to the receiver, each with the host it comes
\* from; toS: to the socket of the sender; toO: to other hosts.
NoNet == [toR |-> <<>>, toS |-> <<>>, toO |-> <<>>, dup |-> 0, foreign |-> 0]

\* The globals of client.c before main runs; pc is the position of main, recv
\* the position of the receive thread, typed the number of commands entered.
NoProcess == [pc |-> "off", recv |-> "none", typed |-> 0,
              loggedIn |-> 0, sockfd |-> -1,
              joined_sessions |-> <<>>, active_session |-> ""]

\* No connection of the client.  login: the source and data of its LOGIN
\* frame; fd: the descriptor accept gave the server for it; toServer and
\* toClient: the frames written and not yet read; msg: the frame its handler
\* thread has read.
NoConn == [st |-> "none", login |-> <<"", "">>, fd |-> 0,
           toServer |-> <<>>, toClient |-> <<>>, msg |-> Reply(0, "")]

\* made: the peers that have connected, in order; served: how many of the
\* connections accept has returned.
NoBacklog == [made |-> <<>>, served |-> 0]

\* The peers are not modelled: frames and connections are inputs of the steps.
Offline ==
  /\ client = NoProcess
  /\ conn = NoConn
  /\ backlog = NoBacklog

\* The lock is tracked only by the specifications that split a critical
\* section, and no file transfer runs.
Quiet ==
  /\ mutex = Free
  /\ cursor = [t \in Tids |-> NoCursor]
  /\ wire = NoWire
  /\ sender = NoSender
  /\ receiver = NoReceiver
  /\ net = NoNet
  /\ disk = <<>>
  /\ ev = <<>>

\* The conferencing server runs alone.
Alone == Offline /\ Quiet

\* memset(clients, 0, ...); memset(sessions, 0, ...); num_sessions = 0
Init ==
  /\ Alone
  /\ clients = [i \in Slots |-> NoClient]
  /\ sessions = <<>>
  /\ threads = [t \in Tids |-> NoThread]
  /\ acc = [pc |-> "accept", client_sock |-> 0]
  /\ fdt = [d \in FDs |-> ClosedFd]
  /\ now = 0
  /\ sent = <<>>
  /\ log = <<>>

FreeTids == {t \in Tids : threads[t].pc = "none"}

\* --------------------------------------------------------------- the peers
Tick ==
  /\ now + TickStep <= MaxTime
  /\ now' = now + TickStep
  /\ sent' = <<>>
  /\ log' = <<>>
  /\ UNCHANGED <<clients, sessions, threads, acc, fdt>>
  /\ UNCHANGED <<locking, transfer, remote>>

\* ------------------------------------------------------------ the acceptor
\* accept() returns a new descriptor.
Accept ==
  /\ acc.pc = "accept"
  /\ FreeFds(fdt) # {}
  /\ LET fd == LowestFree(fdt) IN
       /\ fdt' = [fdt EXCEPT ![fd] = [st |-> "open", peer |-> ""]]
       /\ acc' = [pc |-> "recv", client_sock |-> fd]
  /\ sent' = <<>>
  /\ log' = <<>>
  /\ UNCHANGED <<clients, sessions, threads, now>>
  /\ UNCHANGED <<locking, transfer, remote>>

\* recv_message(client_sock, &msg) returns -1 (the peer closed, or the
\* descriptor is no longer open): close(client_sock); continue.
AcceptorRecvFails ==
  /\ acc.pc = "recv"
  /\ fdt' = Close(fdt, acc.client_sock)
  /\ acc' = [acc EXCEPT !.pc = "accept"]
  /\ sent' = <<>>
  /\ log' = <<>>
  /\ UNCHANGED <<clients, sessions, threads, now>>
  /\ UNCHANGED <<locking, transfer, remote>>

\* The first frame arrives and is not LOGIN: close(client_sock); continue.
AcceptorNotLogin(type) ==
  /\ acc.pc = "recv"
  /\ ~BadFd(fdt, acc.client_sock)
  /\ type # LOGIN
  /\ fdt' = Close(fdt, acc.client_sock)
  /\ acc' = [acc EXCEPT !.pc = "accept"]
  /\ sent' = <<>>
  /\ log' = <<>>
  /\ UNCHANGED <<clients, sessions, threads, now>>
  /\ UNCHANGED <<locking, transfer, remote>>

\* A refusal that leaves the refused connection open.
Refuse_NoClose(text) ==
  /\ sent' = <<Send(acc.client_sock, Reply(LO_NAK, text))>>
  /\ acc' = [acc EXCEPT !.pc = "accept"]
  /\ log' = <<>>
  /\ UNCHANGED <<clients, sessions, threads, fdt, now>>
  /\ UNCHANGED <<locking, transfer, remote>>

\* The three refusals of the admission: reply LO_NAK, close, unlock, continue.
Refuse(text) ==
  /\ sent' = <<Send(acc.client_sock, Reply(LO_NAK, text))>>
  /\ fdt' = Close(fdt, acc.client_sock)
  /\ acc' = [acc EXCEPT !.pc = "accept"]
  /\ log' = <<>>
  /\ UNCHANGED <<clients, sessions, threads, now>>
  /\ UNCHANGED <<locking, transfer, remote>>

\* The thread pthread_create starts.  The first statements of client_thread
\* copy sockfd and clientID out of the slot without holding the mutex: either
\* they have run when main unlocks (started), or they run later (ThreadStart).
NewThread(idx, cl, started) ==
  IF started
  THEN [NoThread EXCEPT !.pc = "recv", !.my_index = idx,
                        !.sockfd = cl[idx].sockfd, !.clientID = cl[idx].clientID]
  ELSE [NoThread EXCEPT !.pc = "start", !.my_index = idx]

\* The first frame arrives and is LOGIN (source, data): the critical section of
\* main; spawn_ok is the outcome of pthread_create.
Admit(source, data, spawn_ok, started) ==
  /\ acc.pc = "recv"
  /\ ~BadFd(fdt, acc.client_sock)
  /\ spawn_ok => FreeTids # {}
  /\ ~spawn_ok => started
  /\ IF find_client_by_id(clients, source) # -1
       THEN Refuse("Client ID already in use")
     ELSE IF authenticate_user(source, data) = 0
       THEN Refuse("Invalid username/password")
     ELSE IF find_free_client_slot(clients) < 0
       THEN Refuse("Server full")
     ELSE LET idx == find_free_client_slot(clients)
              fd  == acc.client_sock
              tid == CHOOSE t \in FreeTids : \A u \in FreeTids : t <= u
          IN  /\ sent' = <<Send(fd, Reply(LO_ACK, "Login successful"))>>
              /\ log' = << <<"logged in", source>> >>
              /\ acc' = [acc EXCEPT !.pc = "accept"]
              /\ now' = now
              /\ sessions' = sessions
              /\ IF spawn_ok
                 THEN /\ clients' = [clients EXCEPT ![idx] =
                            [sockfd |-> fd, clientID |-> source, sessions |-> <<>>,
                             active |-> TRUE, last_active |-> now]]
                      /\ threads' = [threads EXCEPT ![tid] = NewThread(idx, clients', started)]
                      /\ fdt' = [fdt EXCEPT ![fd].peer = source]
                 ELSE /\ clients' = [clients EXCEPT ![idx] =
                            [sockfd |-> fd, clientID |-> source, sessions |-> <<>>,
                             active |-> FALSE, last_active |-> now]]
                      /\ threads' = threads
                      /\ fdt' = Close(fdt, fd)
  /\ UNCHANGED <<locking, transfer, remote>>

\* --------------------------------------------------------- client_thread
\* The first statements of client_thread, before the loop, when they run
\* after main has unlocked.
ThreadStart(t) ==
  /\ threads[t].pc = "start"
  /\ threads' = [threads EXCEPT ![t].pc = "recv",
                                ![t].sockfd = clients[threads[t].my_index].sockfd,
                                ![t].clientID = clients[threads[t].my_index].clientID]
  /\ sent' = <<>>
  /\ log' = <<>>
  /\ UNCHANGED <<clients, sessions, acc, fdt, now>>
  /\ UNCHANGED <<locking, transfer, remote>>

\* recv_message(sockfd, &msg) returns, outside the lock: with -1 (break) when
\* the descriptor is not open or the peer has closed (eof), else with a frame
\* of the connection that descriptor number names at that moment.
HandlerRecv(t, eof) ==
  /\ threads[t].pc = "recv"
  /\ IF BadFd(fdt, threads[t].sockfd) \/ eof
     THEN threads' = [threads EXCEPT ![t].pc = "closed"]
     ELSE threads' = [threads EXCEPT ![t].pc = "got",
                                     ![t].from = fdt[threads[t].sockfd].peer]
  /\ sent' = <<>>
  /\ log' = <<>>
  /\ UNCHANGED <<clients, sessions, acc, fdt, now>>
  /\ UNCHANGED <<locking, transfer, remote>>

\* clients[my_index].last_active = time(NULL), the first statement under the lock.
Touch(t) == [clients EXCEPT ![threads[t].my_index].last_active = now]

\* The thread goes back to recv_message after pthread_mutex_unlock.
BackToRecv(t) == threads' = [threads EXCEPT ![t].pc = "recv", ![t].from = ""]

HandleExit(t) ==
  /\ threads[t].pc = "got"
  /\ LET me == threads[t].my_index
         id == threads[t].clientID
         cl == Touch(t)
     IN  /\ sessions' = RemoveFromAll(sessions, id, cl[me].sessions)
         /\ clients' = [cl EXCEPT ![me].sessions = <<>>, ![me].active = FALSE]
         /\ fdt' = Close(fdt, threads[t].sockfd)
         /\ log' = << <<"logged out", id>> >>
  /\ threads' = [threads EXCEPT ![t] = DoneThread]
  /\ sent' = <<>>
  /\ UNCHANGED <<acc, now>>
  /\ UNCHANGED <<locking, transfer, remote>>

\* HandleJoin creating the session it does not find, with the client as member.
HandleJoin_Implicit(t, sessionID) ==
  /\ threads[t].pc = "got"
  /\ LET me == threads[t].my_index
         id == threads[t].clientID
         fd == threads[t].sockfd
         cl == Touch(t)
         ss == IF find_session(sessions, sessionID) < 0
               THEN create_session(sessions, sessionID).ss
               ELSE sessions
         r  == add_client_to_session(ss, id, sessionID)
     IN  IF r.ret = 0
         THEN /\ sessions' = r.ss
              /\ clients' = IF sessionID \in Range(cl[me].sessions)
                                \/ Len(cl[me].sessions) >= MAX_SESSIONS
                             THEN cl
                             ELSE [cl EXCEPT ![me].sessions = Append(@, sessionID)]
              /\ sent' = <<Send(fd, Reply(JN_ACK, sessionID))>>
              /\ log' = <<>>
         ELSE /\ sessions' = sessions
              /\ clients' = cl
              /\ sent' = <<Send(fd, Reply(JN_NAK, "Session is full or error adding"))>>
              /\ log' = <<>>
  /\ BackToRecv(t)
  /\ UNCHANGED <<acc, fdt, now>>
  /\ UNCHANGED <<locking, transfer, remote>>

HandleJoin(t, sessionID) ==
  /\ threads[t].pc = "got"
  /\ LET me == threads[t].my_index
         id == threads[t].clientID
         fd == threads[t].sockfd
         cl == Touch(t)
     IN  IF find_session(sessions, sessionID) < 0
         THEN /\ sent' = <<Send(fd, Reply(JN_NAK, <<sessionID, ": session not found">>))>>
              /\ clients' = cl
              /\ sessions' = sessions
              /\ log' = <<>>
         ELSE IF sessionID \in Range(cl[me].sessions)
         THEN /\ sent' = <<Send(fd, Reply(JN_ACK, sessionID))>>
              /\ clients' = cl
              /\ sessions' = sessions
              /\ log' = <<>>
         ELSE LET r == add_client_to_session(sessions, id, sessionID) IN
              IF r.ret = 0
              THEN /\ sessions' = r.ss
                   /\ clients' = IF Len(cl[me].sessions) < MAX_SESSIONS
                                 THEN [cl EXCEPT ![me].sessions = Append(@, sessionID)]
                                 ELSE cl
                   /\ sent' = <<Send(fd, Reply(JN_ACK, sessionID))>>
                   /\ log' = << <<"joined session", id, sessionID>> >>
              ELSE /\ sessions' = sessions
                   /\ clients' = cl
                   /\ sent' = <<Send(fd, Reply(JN_NAK, "Session is full or error adding"))>>
                   /\ log' = <<>>
  /\ BackToRecv(t)
  /\ UNCHANGED <<acc, fdt, now>>
  /\ UNCHANGED <<locking, transfer, remote>>

HandleLeave(t, sessionID) ==
  /\ threads[t].pc = "got"
  /\ LET me == threads[t].my_index
         id == threads[t].clientID
         cl == Touch(t)
         found == IndexOf(cl[me].sessions, sessionID)
     IN  IF found # 0
         THEN /\ sessions' = remove_client_from_session(sessions, id, sessionID)
              /\ clients' = [cl EXCEPT ![me].sessions = RemoveAt(@, found)]
              /\ log' = << <<"left session", id, sessionID>> >>
         ELSE /\ sessions' = sessions
              /\ clients' = cl
              /\ log' = <<>>
  /\ sent' = <<>>
  /\ BackToRecv(t)
  /\ UNCHANGED <<acc, fdt, now>>
  /\ UNCHANGED <<locking, transfer, remote>>

HandleNewSess(t, newSessionID) ==
  /\ threads[t].pc = "got"
  /\ LET me == threads[t].my_index
         id == threads[t].clientID
         fd == threads[t].sockfd
         cl == Touch(t)
         c  == create_session(sessions, newSessionID)
     IN  IF c.ret < 0
         THEN /\ sent' = <<Send(fd, Reply(JN_NAK, <<"Failed to create session ", newSessionID>>))>>
              /\ sessions' = sessions
              /\ clients' = cl
              /\ log' = <<>>
         ELSE /\ sessions' = add_client_to_session(c.ss, id, newSessionID).ss
              /\ clients' = IF Len(cl[me].sessions) < MAX_SESSIONS
                            THEN [cl EXCEPT ![me].sessions = Append(@, newSessionID)]
                            ELSE cl
              /\ sent' = <<Send(fd, Reply(NS_ACK, newSessionID))>>
              /\ log' = << <<"created session", id, newSessionID>> >>
  /\ BackToRecv(t)
  /\ UNCHANGED <<acc, fdt, now>>
  /\ UNCHANGED <<locking, transfer, remote>>

\* msg is the frame as the peer sent it; the handler overwrites msg.source.
HandleMessage(t, msg) ==
  /\ threads[t].pc = "got"
  /\ msg.type = MESSAGE
  /\ clients' = Touch(t)
  /\ sent' = broadcast_message(sessions, Touch(t), msg.session,
                               [msg EXCEPT !.source = threads[t].clientID])
  /\ log' = <<>>
  /\ BackToRecv(t)
  /\ UNCHANGED <<sessions, acc, fdt, now>>
  /\ UNCHANGED <<locking, transfer, remote>>

HandleQuery(t) ==
  /\ threads[t].pc = "got"
  /\ clients' = Touch(t)
  /\ sent' = <<Send(threads[t].sockfd, Reply(QU_ACK, build_list(Touch(t), sessions)))>>
  /\ log' = <<>>
  /\ BackToRecv(t)
  /\ UNCHANGED <<sessions, acc, fdt, now>>
  /\ UNCHANGED <<locking, transfer, remote>>

\* The final else of the dispatch.
HandleUnknown(t, type) ==
  /\ threads[t].pc = "got"
  /\ type \notin {EXIT, JOIN, LEAVE_SESS, NEW_SESS, MESSAGE, QUERY}
  /\ clients' = Touch(t)
  /\ sent' = <<>>
  /\ log' = << <<"Unknown message type", threads[t].clientID>> >>
  /\ BackToRecv(t)
  /\ UNCHANGED <<sessions, acc, fdt, now>>
  /\ UNCHANGED <<locking, transfer, remote>>

\* The code after the loop: "Handle abrupt disconnection."
HandlerCleanup(t) ==
  /\ threads[t].pc = "closed"
  /\ LET me == threads[t].my_index
         id == threads[t].clientID
     IN  IF clients[me].active
         THEN /\ sessions' = RemoveFromAll(sessions, id, clients[me].sessions)
              /\ clients' = [clients EXCEPT ![me].sessions = <<>>, ![me].active = FALSE]
              /\ fdt' = Close(fdt, threads[t].sockfd)
              /\ log' = << <<"disconnected", id>> >>
         ELSE /\ UNCHANGED <<sessions, clients, fdt>>
              /\ log' = <<>>
  /\ threads' = [threads EXCEPT ![t] = DoneThread]
  /\ sent' = <<>>
  /\ UNCHANGED <<acc, now>>
  /\ UNCHANGED <<locking, transfer, remote>>

\* ---------------------------------------------------- inactivity_monitor
\* The pass of the monitor with >= in place of > in the threshold test.
RECURSIVE MonitorFrom_AtThreshold(_, _, _, _, _)
MonitorFrom_AtThreshold(cl, ss, f, lg, i) ==
  IF i >= MAX_CLIENTS THEN [cl |-> cl, ss |-> ss, f |-> f, lg |-> lg]
  ELSE IF cl[i].active /\ now - cl[i].last_active >= INACTIVITY_THRESHOLD
       THEN MonitorFrom_AtThreshold(
                        [cl EXCEPT ![i].sessions = <<>>, ![i].active = FALSE],
                        RemoveFromAll(ss, cl[i].clientID, cl[i].sessions),
                        Close(f, cl[i].sockfd),
                        Append(lg, <<"Disconnecting client due to inactivity", cl[i].clientID>>),
                        i + 1)
       ELSE MonitorFrom_AtThreshold(cl, ss, f, lg, i + 1)

\* The for loop of one pass, from slot i on.
RECURSIVE MonitorFrom(_, _, _, _, _)
MonitorFrom(cl, ss, f, lg, i) ==
  IF i >= MAX_CLIENTS THEN [cl |-> cl, ss |-> ss, f |-> f, lg |-> lg]
  ELSE IF cl[i].active /\ now - cl[i].last_active > INACTIVITY_THRESHOLD
       THEN MonitorFrom([cl EXCEPT ![i].sessions = <<>>, ![i].active = FALSE],
                        RemoveFromAll(ss, cl[i].clientID, cl[i].sessions),
                        Close(f, cl[i].sockfd),
                        Append(lg, <<"Disconnecting client due to inactivity", cl[i].clientID>>),
                        i + 1)
       ELSE MonitorFrom(cl, ss, f, lg, i + 1)

\* One pass of the monitor: sleep(5), lock, scan, unlock.
inactivity_monitor ==
  /\ LET r == MonitorFrom(clients, sessions, fdt, <<>>, 0) IN
       /\ clients' = r.cl
       /\ sessions' = r.ss
       /\ fdt' = r.f
       /\ log' = r.lg
  /\ sent' = <<>>
  /\ UNCHANGED <<threads, acc, now>>
  /\ UNCHANGED <<locking, transfer, remote>>

\* -------------------------------------------------------------------- Next
MessageInputs(sids) ==
  {Frame(MESSAGE, s, r, "hi") : s \in SourceInputs, r \in sids}

\* Threads 1 .. n may be created.
ThreadBound(n) == \A t \in Tids : t > n => threads'[t].pc = "none"

Acceptor(n, starts) ==
  \/ Accept
  \/ AcceptorRecvFails
  \/ \E ty \in OtherTypes : AcceptorNotLogin(ty)
  \/ \E in \in LoginInputs, ok \in BOOLEAN, st \in starts :
       Admit(in[1], in[2], ok, st) /\ ThreadBound(n)

Handler(t, sids) ==
  \/ ThreadStart(t)
  \/ \E eof \in BOOLEAN : HandlerRecv(t, eof)
  \/ HandleExit(t)
  \/ \E sid \in sids : HandleJoin(t, sid)
  \/ \E sid \in sids : HandleLeave(t, sid)
  \/ \E sid \in sids : HandleNewSess(t, sid)
  \/ \E m \in MessageInputs(sids) : HandleMessage(t, m)
  \/ HandleQuery(t)
  \/ \E ty \in OtherTypes : HandleUnknown(t, ty)
  \/ HandlerCleanup(t)

\* One session name, two handler threads, every interleaving of the acceptor,
\* the handlers and the monitor.
Next ==
  \/ Tick
  \/ Acceptor(RaceThreads, BOOLEAN)
  \/ \E t \in Tids : Handler(t, {"r1"})
  \/ inactivity_monitor

Spec == Init /\ [][Next]_vars

\* The admissions that succeed, with a thread that has run its first statements.
Logins(n) ==
  \E in \in {<<"alice", "12345">>, <<"bob", "qwerty">>} :
    Admit(in[1], in[2], TRUE, TRUE) /\ ThreadBound(n)

\* Two session names, two handler threads, the frames that change memberships
\* (EXIT, JOIN, LEAVE_SESS, NEW_SESS), disconnects and evictions.
NextSessions ==
  \/ Tick
  \/ Accept
  \/ AcceptorRecvFails
  \/ Logins(RaceThreads)
  \/ \E t \in Tids, eof \in BOOLEAN : HandlerRecv(t, eof)
  \/ \E t \in Tids : HandleExit(t)
  \/ \E t \in Tids, sid \in SessionInputs : HandleJoin(t, sid)
  \/ \E t \in Tids, sid \in SessionInputs : HandleLeave(t, sid)
  \/ \E t \in Tids, sid \in SessionInputs : HandleNewSess(t, sid)
  \/ \E t \in Tids : HandlerCleanup(t)
  \/ inactivity_monitor

SpecSessions == Init /\ [][NextSessions]_vars

\* One session name, MaxThreads handler threads: enough logins for a descriptor
\* number to be closed by one thread and handed out again while another
\* thread or client record still holds it.
NextFd ==
  \/ Tick
  \/ Accept
  \/ AcceptorRecvFails
  \/ Logins(MaxThreads)
  \/ \E t \in Tids, eof \in BOOLEAN : HandlerRecv(t, eof)
  \/ \E t \in Tids : HandleExit(t)
  \/ \E t \in Tids : HandleJoin(t, "r1")
  \/ \E t \in Tids : HandleNewSess(t, "r1")
  \/ \E t \in Tids : HandleMessage(t, Frame(MESSAGE, "eve", "r1", "hi"))
  \/ \E t \in Tids : HandlerCleanup(t)
  \/ inactivity_monitor

SpecFd == Init /\ [][NextFd]_vars

\* One session name more than the table holds.
CapInputs == SessionInputs \cup {"r3"}

\* Three session names against a table of MAX_SESSIONS entries: NEW_SESS,
\* LEAVE_SESS, EXIT, disconnects and evictions.
NextCap ==
  \/ Tick
  \/ Accept
  \/ AcceptorRecvFails
  \/ Logins(RaceThreads)
  \/ \E t \in Tids, eof \in BOOLEAN : HandlerRecv(t, eof)
  \/ \E t \in Tids : HandleExit(t)
  \/ \E t \in Tids, sid \in CapInputs : HandleLeave(t, sid)
  \/ \E t \in Tids, sid \in CapInputs : HandleNewSess(t, sid)
  \/ \E t \in Tids : HandlerCleanup(t)
  \/ inactivity_monitor

SpecCap == Init /\ [][NextCap]_vars

\* ------------------------------------------------ writes that block
\* No thread is inside a write() that has not returned; such a thread is in a
\* critical section, so the mutex is free only when there is none.
LockFree == \A t \in Tids : threads[t].pc # "sending"

\* MESSAGE: a write() of the broadcast does not return, because the receiving
\* peer has stopped reading and the socket's send buffer is full.  The handler
\* stays inside broadcast_message with the mutex held.
HandleMessageBlocks(t, msg) ==
  /\ threads[t].pc = "got"
  /\ msg.type = MESSAGE
  /\ broadcast_message(sessions, Touch(t), msg.session, msg) # <<>>
  /\ clients' = Touch(t)
  /\ threads' = [threads EXCEPT ![t].pc = "sending"]
  /\ sent' = <<>>
  /\ log' = <<>>
  /\ UNCHANGED <<sessions, acc, fdt, now>>
  /\ UNCHANGED <<locking, transfer, remote>>

\* The peer reads again: the write returns, the broadcast finishes, unlock.
WriteCompletes(t, msg) ==
  /\ threads[t].pc = "sending"
  /\ msg.type = MESSAGE
  /\ sent' = broadcast_message(sessions, clients, msg.session,
                               [msg EXCEPT !.source = threads[t].clientID])
  /\ log' = <<>>
  /\ BackToRecv(t)
  /\ UNCHANGED <<clients, sessions, acc, fdt, now>>
  /\ UNCHANGED <<locking, transfer, remote>>

\* One pass of the monitor once pthread_mutex_lock has returned.
MonitorPass == LockFree /\ inactivity_monitor

\* One session name, the critical sections taken only while the mutex is
\* free, and broadcasts whose write may block.
NextBlocking ==
  \/ Tick
  \/ Accept
  \/ AcceptorRecvFails
  \/ LockFree /\ Logins(RaceThreads)
  \/ \E t \in Tids, eof \in BOOLEAN : HandlerRecv(t, eof)
  \/ \E t \in Tids : LockFree /\ HandleExit(t)
  \/ \E t \in Tids : LockFree /\ HandleJoin(t, "r1")
  \/ \E t \in Tids : LockFree /\ HandleNewSess(t, "r1")
  \/ \E t \in Tids : LockFree /\ HandleMessage(t, Frame(MESSAGE, "eve", "r1", "hi"))
  \/ \E t \in Tids : LockFree /\ HandleMessageBlocks(t, Frame(MESSAGE, "eve", "r1", "hi"))
  \/ \E t \in Tids : WriteCompletes(t, Frame(MESSAGE, "eve", "r1", "hi"))
  \/ \E t \in Tids : LockFree /\ HandlerCleanup(t)
  \/ MonitorPass

\* The monitor thread wakes every 5 seconds and takes its pass whenever the
\* mutex can be taken; nothing obliges a peer to read.
SpecBlocking == Init /\ [][NextBlocking]_vars /\ WF_vars(MonitorPass)

\* ------------------------------------------- inside the critical sections
\* Broadcasts of a run of SpecLock.
MaxBroadcasts == 3

HandlerOf(t) == <<"handler", t>>

\* MESSAGE, first part: pthread_mutex_lock returns, last_active is renewed, the
\* source field is overwritten and broadcast_message is entered.
BroadcastLock_NoLock(t, session, data) ==
  /\ threads[t].pc = "got"
  /\ wire.next <= MaxBroadcasts
  /\ mutex' = mutex
  /\ clients' = Touch(t)
  /\ threads' = [threads EXCEPT ![t].pc = "broadcast"]
  /\ cursor' = [cursor EXCEPT ![t] = [b |-> wire.next, i |-> 1,
                                      session |-> session, data |-> data]]
  /\ wire' = [wire EXCEPT !.next = @ + 1]
  /\ sent' = <<>>
  /\ log' = <<>>
  /\ UNCHANGED <<sessions, acc, fdt, now, transfer, remote>>

BroadcastLock(t, session, data) ==
  /\ threads[t].pc = "got"
  /\ wire.next <= MaxBroadcasts
  /\ mutex = Free
  /\ mutex' = HandlerOf(t)
  /\ clients' = Touch(t)
  /\ threads' = [threads EXCEPT ![t].pc = "broadcast"]
  /\ cursor' = [cursor EXCEPT ![t] = [b |-> wire.next, i |-> 1,
                                      session |-> session, data |-> data]]
  /\ wire' = [wire EXCEPT !.next = @ + 1]
  /\ sent' = <<>>
  /\ log' = <<>>
  /\ UNCHANGED <<sessions, acc, fdt, now, transfer, remote>>

\* The members broadcast_message of thread t loops over.
BroadcastMembers(t) ==
  LET sidx == find_session(sessions, cursor[t].session) IN
  IF sidx < 0 THEN <<>> ELSE sessions[sidx + 1].members

\* One iteration of the loop of broadcast_message: send_message to member i.
BroadcastStep(t) ==
  /\ threads[t].pc = "broadcast"
  /\ cursor[t].i <= Len(BroadcastMembers(t))
  /\ LET cidx == find_client_by_id(clients, BroadcastMembers(t)[cursor[t].i])
         fd   == clients[cidx].sockfd
         msg  == Frame(MESSAGE, threads[t].clientID, cursor[t].session, cursor[t].data)
     IN  IF cidx >= 0
         THEN /\ sent' = <<Send(fd, msg)>>
              /\ wire' = IF BadFd(fdt, fd) THEN wire
                         ELSE [wire EXCEPT !.at[fd] = Append(@, cursor[t].b)]
         ELSE /\ sent' = <<>>
              /\ wire' = wire
  /\ cursor' = [cursor EXCEPT ![t].i = @ + 1]
  /\ log' = <<>>
  /\ UNCHANGED <<clients, sessions, threads, acc, fdt, now, mutex, transfer, remote>>

\* broadcast_message returns; pthread_mutex_unlock; back to recv_message.
BroadcastUnlock(t) ==
  /\ threads[t].pc = "broadcast"
  /\ cursor[t].i > Len(BroadcastMembers(t))
  /\ mutex' = IF mutex = HandlerOf(t) THEN Free ELSE mutex
  /\ cursor' = [cursor EXCEPT ![t] = NoCursor]
  /\ BackToRecv(t)
  /\ sent' = <<>>
  /\ log' = <<>>
  /\ UNCHANGED <<clients, sessions, acc, fdt, now, wire, transfer, remote>>

\* pthread_mutex_lock returns only while nobody holds the mutex.
Unlocked == mutex = Free

\* One session name; the critical sections of the acceptor, of the monitor
\* and of the other frames are single steps taken while the mutex is free;
\* the critical section of MESSAGE is split at every send_message.  A new
\* thread runs its first statements after main has unlocked.
NextLock ==
  \/ Accept
  \/ AcceptorRecvFails
  \/ \E in \in {<<"alice", "12345">>, <<"bob", "qwerty">>} :
       Unlocked /\ Admit(in[1], in[2], TRUE, FALSE) /\ ThreadBound(RaceThreads)
  \/ \E t \in Tids : ThreadStart(t)
  \/ \E t \in Tids, eof \in BOOLEAN : HandlerRecv(t, eof)
  \/ \E t \in Tids : Unlocked /\ HandleExit(t)
  \/ \E t \in Tids : Unlocked /\ HandleJoin(t, "r1")
  \/ \E t \in Tids : Unlocked /\ HandleNewSess(t, "r1")
  \/ \E t \in Tids : BroadcastLock(t, "r1", "hi")
  \/ \E t \in Tids : BroadcastStep(t)
  \/ \E t \in Tids : BroadcastUnlock(t)
  \/ \E t \in Tids : Unlocked /\ HandlerCleanup(t)

SpecLock == Init /\ [][NextLock]_vars

\* ------------------------------------------ pthread_mutex_lock and unlock
\* The thread of main and the thread of inactivity_monitor as mutex holders.
MainThread == <<"main", 0>>
MonitorThread == <<"monitor", 0>>

\* main: pthread_mutex_lock returns (line 558), after recv_message has
\* returned a LOGIN frame.
MainLock ==
  /\ acc.pc = "recv"
  /\ ~BadFd(fdt, acc.client_sock)
  /\ mutex = Free
  /\ mutex' = MainThread
  /\ UNCHANGED <<server, cursor, wire, transfer, remote>>

\* main: the pthread_mutex_unlock that ends the admission (lines 567, 578,
\* 590, 618), before the continue or the end of the loop body.
MainUnlock ==
  /\ mutex = MainThread
  /\ acc.pc = "accept"
  /\ mutex' = Free
  /\ UNCHANGED <<server, cursor, wire, transfer, remote>>

\* client_thread: pthread_mutex_lock returns, with a frame read (line 341) or
\* after the loop (line 470).
HandlerLock(t) ==
  /\ threads[t].pc \in {"got", "closed"}
  /\ mutex = Free
  /\ mutex' = HandlerOf(t)
  /\ UNCHANGED <<server, cursor, wire, transfer, remote>>

\* The unlock of client_thread that is missing before a return.
HandlerUnlock_NotOnReturn(t) ==
  /\ mutex = HandlerOf(t)
  /\ threads[t].pc = "recv"
  /\ mutex' = Free
  /\ UNCHANGED <<server, cursor, wire, transfer, remote>>

\* client_thread: pthread_mutex_unlock at the end of the dispatch (line 466),
\* on the EXIT path before return NULL (line 352), after the cleanup (481).
HandlerUnlock(t) ==
  /\ mutex = HandlerOf(t)
  /\ threads[t].pc \in {"recv", "done"}
  /\ mutex' = Free
  /\ UNCHANGED <<server, cursor, wire, transfer, remote>>

\* inactivity_monitor: sleep returns, pthread_mutex_lock returns and the loop
\* over the slots runs (lines 305-320).
MonitorLockedPass ==
  /\ mutex = Free
  /\ mutex' = MonitorThread
  /\ LET r == MonitorFrom(clients, sessions, fdt, <<>>, 0) IN
       /\ clients' = r.cl
       /\ sessions' = r.ss
       /\ fdt' = r.f
       /\ log' = r.lg
  /\ sent' = <<>>
  /\ UNCHANGED <<threads, acc, now, cursor, wire, transfer, remote>>

\* inactivity_monitor: pthread_mutex_unlock (line 321), then sleep again.
MonitorUnlock ==
  /\ mutex = MonitorThread
  /\ mutex' = Free
  /\ UNCHANGED <<server, cursor, wire, transfer, remote>>

\* The statements of main between lock and unlock.
MainSection ==
  /\ mutex = MainThread
  /\ \E in \in LoginInputs, ok \in BOOLEAN :
       Admit(in[1], in[2], ok, TRUE) /\ ThreadBound(RaceThreads)

\* The statements of client_thread t between lock and unlock.
HandlerSection(t) ==
  /\ mutex = HandlerOf(t)
  /\ \/ HandleExit(t)
     \/ HandleJoin(t, "r1")
     \/ HandleLeave(t, "r1")
     \/ HandleNewSess(t, "r1")
     \/ HandleMessage(t, Frame(MESSAGE, "eve", "r1", "hi"))
     \/ HandleQuery(t)
     \/ HandleUnknown(t, UNKNOWN_TYPE)
     \/ HandlerCleanup(t)

\* The steps a thread takes while it holds the mutex.
Holds ==
  \/ MainSection
  \/ MainUnlock
  \/ \E t \in Tids : HandlerSection(t)
  \/ \E t \in Tids : HandlerUnlock(t)
  \/ MonitorUnlock

\* One session name, two handler threads that have run their first statements
\* when main unlocks, a clock that stands still; every pthread_mutex_lock and
\* pthread_mutex_unlock is a step of its own.  The calls that wait for a peer
\* (accept, recv_message) are the steps taken outside the critical sections.
NextMutex ==
  \/ mutex # MainThread /\ Accept
  \/ mutex # MainThread /\ AcceptorRecvFails
  \/ MainLock
  \/ \E t \in Tids, eof \in BOOLEAN : mutex # HandlerOf(t) /\ HandlerRecv(t, eof)
  \/ \E t \in Tids : HandlerLock(t)
  \/ MonitorLockedPass
  \/ Holds

\* A thread that is running and holds the mutex goes on to its next statement;
\* nothing obliges a peer to connect or to send.
SpecMutex == Init /\ [][NextMutex]_vars /\ WF_vars(Holds)

\* ------------------------------------------------ a clock with two steps
\* The times at which the threads of SpecReaper look at the clock.
ClockValues == {0, ShortTick, LongTick, ShortTick + LongTick}

\* time(NULL) advances by d seconds.
TickBy(d) ==
  /\ now + d <= MaxTime
  /\ now + d \in ClockValues
  /\ now' = now + d
  /\ sent' = <<>>
  /\ log' = <<>>
  /\ UNCHANGED <<clients, sessions, threads, acc, fdt>>
  /\ UNCHANGED <<locking, transfer, remote>>

\* No sessions, frames that only renew last_active, and a clock that reaches
\* 1, 60 and 61 seconds, so that idle times below, at and above the threshold
\* occur.
NextReaper ==
  \/ \E d \in {ShortTick, LongTick} : TickBy(d)
  \/ Accept
  \/ AcceptorRecvFails
  \/ Logins(RaceThreads)
  \/ \E t \in Tids, eof \in BOOLEAN : HandlerRecv(t, eof)
  \/ \E t \in Tids : HandleExit(t)
  \/ \E t \in Tids, ty \in OtherTypes : HandleUnknown(t, ty)
  \/ \E t \in Tids : HandlerCleanup(t)
  \/ inactivity_monitor

SpecReaper == Init /\ [][NextReaper]_vars

\* ------------------------------------------------- the listening socket
\* Connections made to the server in one run.
MaxConns == 2

\* What a peer does after connect(): it sends nothing and keeps the connection
\* open, it sends a LOGIN frame, or it closes the connection.
PeerKinds == {"silent", "login", "closes"}

\* A peer connects: the connection waits in the queue of listen(server_sock, 10).
Connect(kind) ==
  /\ Len(backlog.made) < MaxConns
  /\ backlog' = [backlog EXCEPT !.made = Append(@, kind)]
  /\ sent' = <<>>
  /\ log' = <<>>
  /\ UNCHANGED <<clients, sessions, threads, acc, fdt, now>>
  /\ UNCHANGED <<locking, transfer, client, conn>>

\* The connection the acceptor is serving while it is in recv_message.
Serving == backlog.made[backlog.served]

\* accept() returns the oldest connection of the queue; it blocks while the
\* queue is empty.  The connection of the client is open from then on.
AcceptConnection ==
  /\ acc.pc = "accept"
  /\ backlog.served < Len(backlog.made)
  /\ FreeFds(fdt) # {}
  /\ LET fd == LowestFree(fdt) IN
       /\ fdt' = [fdt EXCEPT ![fd] = [st |-> "open", peer |-> ""]]
       /\ acc' = [pc |-> "recv", client_sock |-> fd]
       /\ conn' = IF backlog.made[backlog.served + 1] = "client"
                  THEN [conn EXCEPT !.st = "open", !.fd = fd]
                  ELSE conn
  /\ backlog' = [backlog EXCEPT !.served = @ + 1]
  /\ sent' = <<>>
  /\ log' = <<>>
  /\ UNCHANGED <<clients, sessions, threads, now>>
  /\ UNCHANGED <<locking, transfer, client>>

\* recv_message(client_sock, &msg) of main returns: with the LOGIN frame of the
\* peer, or with -1 once the peer has closed.  read() has no timeout: while
\* the peer sends nothing the acceptor stays in it.
FirstFrame ==
  /\ acc.pc = "recv"
  /\ \/ /\ Serving = "login"
        /\ \E in \in LoginInputs, ok \in BOOLEAN :
             Admit(in[1], in[2], ok, TRUE) /\ ThreadBound(RaceThreads)
     \/ /\ Serving = "closes"
        /\ AcceptorRecvFails

\* The peers connect in any order; the admitted clients send EXIT or close.
NextAdmission ==
  \/ \E kind \in PeerKinds : Connect(kind)
  \/ AcceptConnection
  \/ FirstFrame
  \/ \E t \in Tids, eof \in BOOLEAN : HandlerRecv(t, eof)
  \/ \E t \in Tids : HandleExit(t)
  \/ \E t \in Tids : HandlerCleanup(t)

\* The acceptor thread is scheduled: accept returns when a connection waits,
\* and recv_message returns when its peer has sent or closed.
SpecAdmission ==
  Init /\ [][NextAdmission]_vars /\ WF_vars(AcceptConnection) /\ WF_vars(FirstFrame)

\* ================================================= the conferencing client
\* client.c: the command loop of main and the receive thread, which share the
\* globals sockfd, loggedIn, joined_sessions, session_count and active_session
\* without a lock.  One client runs against the server; it logs in once and
\* enters /createsession, /joinsession, /leavesession and /switchsession.
\* MAX_SESSIONS of client.c.
CLIENT_MAX_SESSIONS == 10
\* Commands the user enters in one run.
MaxCommands == 4
\* The descriptor socket() returns in the client, a number of its own process.
ClientSock == MaxFd + 1
\* The clientID and password the user gives to /login.
ClientLogins == { <<"alice", "12345">>, <<"alice", "wrong">> }

\* The server does not move during a step of the client, and no step is taken
\* while frames the server has written wait to be queued on the connection.
ServerWaits ==
  /\ sent = <<>>
  /\ sent' = <<>>
  /\ log' = <<>>
  /\ UNCHANGED <<clients, sessions, threads, acc, fdt, now>>
  /\ UNCHANGED <<locking, transfer>>

\* main returns to the head of its loop after a command.
Entered(c) == [c EXCEPT !.pc = "top", !.typed = @ + 1]

\* send_message(&msg) of the client.
ClientSend(m) == conn' = [conn EXCEPT !.toServer = Append(@, m)]

\* The head of the loop: exit(0) when loggedIn && sockfd < 0, else the prompt.
LoopTop ==
  /\ client.pc = "top"
  /\ client' = [client EXCEPT !.pc = IF client.loggedIn = 1 /\ client.sockfd < 0
                                     THEN "exited" ELSE "prompt"]
  /\ ServerWaits
  /\ UNCHANGED <<conn, backlog>>

\* /login: socket, connect, send LOGIN, session_count = 0, active_session = "",
\* pthread_create(receive_handler).
CmdLogin(id, password) ==
  /\ client.pc = "prompt"
  /\ client.typed < MaxCommands
  /\ client.loggedIn = 0
  /\ backlog.made = <<>>
  /\ client' = [client EXCEPT !.pc = "login", !.typed = @ + 1, !.recv = "wait",
                              !.sockfd = ClientSock,
                              !.joined_sessions = <<>>, !.active_session = ""]
  /\ conn' = [NoConn EXCEPT !.st = "queued", !.login = <<id, password>>]
  /\ backlog' = [backlog EXCEPT !.made = Append(@, "client")]
  /\ ServerWaits

\* loggedIn = 1, the last statement of /login, after the thread is created.
CmdLoginDone ==
  /\ client.pc = "login"
  /\ client' = [client EXCEPT !.pc = "top", !.loggedIn = 1]
  /\ ServerWaits
  /\ UNCHANGED <<conn, backlog>>

\* if (!loggedIn || sockfd < 0) continue.
Usable == client.pc = "prompt" /\ client.typed < MaxCommands
          /\ client.loggedIn = 1 /\ client.sockfd >= 0

\* /joinsession <sessionID>: JOIN with the name in data.
CmdJoinSession(sessionID) ==
  /\ Usable
  /\ ClientSend(Frame(JOIN, "", "", sessionID))
  /\ client' = Entered(client)
  /\ ServerWaits
  /\ UNCHANGED backlog

\* /createsession <sessionID>: NEW_SESS with the name in data.
CmdCreateSession(sessionID) ==
  /\ Usable
  /\ ClientSend(Frame(NEW_SESS, "", "", sessionID))
  /\ client' = Entered(client)
  /\ ServerWaits
  /\ UNCHANGED backlog

\* /leavesession: LEAVE_SESS with active_session in session; the session is
\* taken from joined_sessions at once and the first one left becomes active.
CmdLeaveSession ==
  /\ Usable
  /\ client.active_session # ""
  /\ ClientSend(Frame(LEAVE_SESS, "", client.active_session, ""))
  /\ LET found_index == IndexOf(client.joined_sessions, client.active_session)
         js == IF found_index # 0
               THEN RemoveAt(client.joined_sessions, found_index)
               ELSE client.joined_sessions
     IN  client' = [Entered(client) EXCEPT
                      !.joined_sessions = js,
                      !.active_session = IF Len(js) > 0 THEN js[1] ELSE ""]
  /\ ServerWaits
  /\ UNCHANGED backlog

\* /switchsession <sessionID>: only when the name is in joined_sessions.
CmdSwitchSession(sessionID) ==
  /\ Usable
  /\ sessionID \in Range(client.joined_sessions)
  /\ client' = [Entered(client) EXCEPT !.active_session = sessionID]
  /\ ServerWaits
  /\ UNCHANGED <<conn, backlog>>

\* The JN_ACK and NS_ACK cases of receive_handler.
Joined(c, sessionID) ==
  [c EXCEPT !.joined_sessions =
              IF sessionID \notin Range(@) /\ Len(@) < CLIENT_MAX_SESSIONS
              THEN Append(@, sessionID) ELSE @,
            !.active_session = IF @ = "" THEN sessionID ELSE @]

\* recv_message of the receive thread returns a frame; the switch on msg.type.
ClientRecv ==
  /\ client.recv = "wait"
  /\ conn.toClient # <<>>
  /\ LET msg == Head(conn.toClient) IN
       client' = IF msg.type \in {JN_ACK, NS_ACK}
                 THEN Joined(client, msg.data) ELSE client
  /\ conn' = [conn EXCEPT !.toClient = Tail(@)]
  /\ ServerWaits
  /\ UNCHANGED backlog

\* The server has closed the connection and every frame has been read.
ServerClosed == conn.st = "open" /\ BadFd(fdt, conn.fd) /\ conn.toClient = <<>>

\* recv_message of the receive thread fails: close(sockfd); sockfd = -1.
ClientRecvFails ==
  /\ client.recv = "wait"
  /\ ServerClosed
  /\ client' = [client EXCEPT !.recv = "lost", !.sockfd = -1]
  /\ ServerWaits
  /\ UNCHANGED <<conn, backlog>>

\* loggedIn = 0; pthread_exit(NULL), the statements after sockfd = -1.
ClientRecvExits ==
  /\ client.recv = "lost"
  /\ client' = [client EXCEPT !.recv = "exited", !.loggedIn = 0]
  /\ ServerWaits
  /\ UNCHANGED <<conn, backlog>>

\* The frames the server has written to the connection of the client are
\* queued for its receive thread.
Deliver ==
  /\ sent # <<>>
  /\ LET mine == SelectSeq(sent, LAMBDA w : w.fd = conn.fd) IN
       conn' = [conn EXCEPT !.toClient = @ \o [k \in 1 .. Len(mine) |-> mine[k].msg]]
  /\ sent' = <<>>
  /\ UNCHANGED <<clients, sessions, threads, acc, fdt, now, log>>
  /\ UNCHANGED <<locking, transfer, client, backlog>>

\* recv_message(client_sock, &msg) of main returns the LOGIN frame of the client.
LoginFrame ==
  /\ acc.pc = "recv"
  /\ Serving = "client"
  /\ Admit(conn.login[1], conn.login[2], TRUE, TRUE)
  /\ ThreadBound(1)

\* recv_message(sockfd, &msg) of the handler thread returns the next frame of
\* the client.
HandlerRecvFrame(t) ==
  /\ threads[t].pc = "recv"
  /\ ~BadFd(fdt, threads[t].sockfd)
  /\ conn.toServer # <<>>
  /\ threads' = [threads EXCEPT ![t].pc = "got",
                                ![t].from = fdt[threads[t].sockfd].peer]
  /\ conn' = [conn EXCEPT !.msg = Head(conn.toServer), !.toServer = Tail(@)]
  /\ sent' = <<>>
  /\ log' = <<>>
  /\ UNCHANGED <<clients, sessions, acc, fdt, now>>
  /\ UNCHANGED <<locking, transfer, client, backlog>>

\* The handler thread finds its descriptor closed: recv_message returns -1.
HandlerRecvClosed(t) ==
  /\ threads[t].pc = "recv"
  /\ BadFd(fdt, threads[t].sockfd)
  /\ HandlerRecv(t, TRUE)

\* The frames of the step before are queued on the connection.
Queued == sent = <<>>

\* The client and its server: the server takes a step only when the frames of
\* its step before are queued.
NextClient ==
  \/ LoopTop
  \/ \E in \in ClientLogins : CmdLogin(in[1], in[2])
  \/ CmdLoginDone
  \/ \E s \in SessionInputs : CmdJoinSession(s)
  \/ \E s \in SessionInputs : CmdCreateSession(s)
  \/ CmdLeaveSession
  \/ \E s \in SessionInputs : CmdSwitchSession(s)
  \/ ClientRecv
  \/ ClientRecvFails
  \/ ClientRecvExits
  \/ Deliver
  \/ Queued /\ Tick
  \/ Queued /\ AcceptConnection
  \/ Queued /\ LoginFrame
  \/ Queued /\ \E t \in Tids : HandlerRecvFrame(t)
  \/ Queued /\ \E t \in Tids : HandlerRecvClosed(t)
  \/ Queued /\ \E t \in Tids : conn.msg.type = JOIN /\ HandleJoin(t, conn.msg.data)
  \/ Queued /\ \E t \in Tids : conn.msg.type = LEAVE_SESS /\ HandleLeave(t, conn.msg.session)
  \/ Queued /\ \E t \in Tids : conn.msg.type = NEW_SESS /\ HandleNewSess(t, conn.msg.data)
  \/ Queued /\ \E t \in Tids : HandlerCleanup(t)
  \/ Queued /\ inactivity_monitor

\* main of the client has printed the usage and enters its loop; the server
\* is listening.
InitClient ==
  /\ client = [NoProcess EXCEPT !.pc = "top"]
  /\ conn = NoConn
  /\ backlog = NoBacklog
  /\ Quiet
  /\ clients = [i \in Slots |-> NoClient]
  /\ sessions = <<>>
  /\ threads = [t \in Tids |-> NoThread]
  /\ acc = [pc |-> "accept", client_sock |-> 0]
  /\ fdt = [d \in FDs |-> ClosedFd]
  /\ now = 0
  /\ sent = <<>>
  /\ log = <<>>

SpecClient == InitClient /\ [][NextClient]_vars

\* =========================================================== file transfer
\* The file sender (deliver.c) and the file receiver (server.c of the file
\* transfer) over UDP.  A datagram is the sequence of its bytes.
DATA_SIZE == 1000
HEADER_SIZE == 512
\* MAXBUFLEN of the receiver; the reply buffers of the sender hold 100 bytes.
MAXBUFLEN == 2000
ReplyBuf == 100

\* ':' and '0' in ASCII.
Colon == 58
Zero == 48
\* The unsigned values of %u from 2^31 - 1 up are kept as this one value.
UIntBig == 2147483647

\* "ftp", "yes" and "ACK".
FTP == <<102, 116, 112>>
YES == <<121, 101, 115>>
ACK == <<65, 67, 75>>

\* A byte of the receive buffer beyond the bytes recvfrom has stored.
STALE == -1

Min(S) == CHOOSE x \in S : \A y \in S : x <= y

\* The string a char buffer holds: the bytes before the first NUL.
CStr(b) ==
  LET nul == {i \in 1 .. Len(b) : b[i] = 0}
  IN  IF nul = {} THEN b ELSE SubSeq(b, 1, Min(nul) - 1)

\* recvfrom into a buffer of n bytes: a longer datagram is cut.
Cut(d, n) == IF Len(d) > n THEN SubSeq(d, 1, n) ELSE d

\* printf("%u", n)
RECURSIVE Digits(_)
Digits(n) == IF n < 10 THEN <<Zero + n>> ELSE Digits(n \div 10) \o <<Zero + (n % 10)>>

\* snprintf(header, sizeof(header), "%u:%u:%u:%s:", total_frag, frag_no, data_size, filename)
Header(total_frag, frag_no, data_size, filename) ==
  Digits(total_frag) \o <<Colon>> \o Digits(frag_no) \o <<Colon>>
    \o Digits(data_size) \o <<Colon>> \o CStr(filename) \o <<Colon>>

\* The bytes of the input file: byte k of a file (k from 1).
FileByte(k) == (k * 29) % 251

\* fread(file_buffer, 1, n, fp) at offset pos.
Chunk(pos, n) == [k \in 1 .. n |-> FileByte(pos + k)]

\* total_frag = file_size / DATA_SIZE; if (file_size % DATA_SIZE != 0) total_frag++
TotalFrag_Floor(file_size) == file_size \div DATA_SIZE

\* A count that is one more than the quotient, whatever the remainder.
TotalFrag_RoundUp(file_size) == file_size \div DATA_SIZE + 1

TotalFrag(file_size) ==
  IF file_size % DATA_SIZE # 0 THEN file_size \div DATA_SIZE + 1
  ELSE file_size \div DATA_SIZE

\* data_size of fragment frag_no (deliver.c lines 116-119).
DataSize(file_size, total_frag, frag_no) ==
  IF frag_no = total_frag /\ file_size % DATA_SIZE # 0
  THEN file_size % DATA_SIZE ELSE DATA_SIZE

\* The packet of fragment frag_no: header, then the chunk.
Packet(filename, file_size, total_frag, frag_no, pos) ==
  LET n == DataSize(file_size, total_frag, frag_no)
  IN  Header(total_frag, frag_no, n, filename) \o Chunk(pos, n)

\* ---- sscanf(header_str, "%u:%u:%u:%255[^:]:", ...)
IsSpace(c) == c \in {32, 9, 10, 11, 12, 13}
IsDigit(c) == c >= Zero /\ c <= Zero + 9

\* First index from p on whose byte fails the test, Len(h) + 1 when none.
SkipSpace(h, p) == Min({q \in p .. Len(h) : ~IsSpace(h[q])} \cup {Len(h) + 1})
SkipDigits(h, p) == Min({q \in p .. Len(h) : ~IsDigit(h[q])} \cup {Len(h) + 1})
SkipName(h, p) == Min({q \in p .. Len(h) : h[q] = Colon} \cup {Len(h) + 1, p + 255})

RECURSIVE DigitsValue(_, _, _)
DigitsValue(h, p, q) ==
  IF q <= p THEN 0
  ELSE LET v == DigitsValue(h, p, q - 1)
       IN  IF v > (UIntBig - 9) \div 10 THEN UIntBig ELSE v * 10 + (h[q - 1] - Zero)

\* %u at index p: white space, an optional sign, digits.  ok is FALSE when
\* no digit follows; next is the index after the last digit.  A negated
\* value wraps to the top of the unsigned range.
ScanU(h, p) ==
  LET a == SkipSpace(h, p)
      neg == a <= Len(h) /\ h[a] = 45
      b == IF a <= Len(h) /\ h[a] \in {43, 45} THEN a + 1 ELSE a
      c == SkipDigits(h, b)
      v == DigitsValue(h, b, c)
  IN  [ok |-> c > b, val |-> IF neg /\ v > 0 THEN UIntBig ELSE v, next |-> c]

\* The literal ':' of the format at index p.
AtColon(h, p) == p <= Len(h) /\ h[p] = Colon

\* The conversions sscanf stores and their number (its return value).
Sscanf(h) ==
  LET f1 == ScanU(h, 1)
      f2 == ScanU(h, f1.next + 1)
      f3 == ScanU(h, f2.next + 1)
      p4 == f3.next + 1
      e4 == SkipName(h, p4)
      none == [fields |-> 0, total_frag |-> 0, frag_no |-> 0, data_size |-> 0,
               filename |-> <<>>]
  IN  IF ~f1.ok THEN none
      ELSE IF ~AtColon(h, f1.next) \/ ~f2.ok
        THEN [none EXCEPT !.fields = 1, !.total_frag = f1.val]
      ELSE IF ~AtColon(h, f2.next) \/ ~f3.ok
        THEN [none EXCEPT !.fields = 2, !.total_frag = f1.val, !.frag_no = f2.val]
      ELSE IF ~AtColon(h, f3.next) \/ e4 = p4
        THEN [none EXCEPT !.fields = 3, !.total_frag = f1.val, !.frag_no = f2.val,
                          !.data_size = f3.val]
      ELSE [fields |-> 4, total_frag |-> f1.val, frag_no |-> f2.val,
            data_size |-> f3.val, filename |-> SubSeq(h, p4, e4 - 1)]

\* ---- the header scan of the receiver (server.c lines 116-148)
Colons(buf) == {i \in 1 .. Len(buf) : buf[i] = Colon}

\* header_len: the index of the fourth ':' (i + 1 with i counted from 0).
HeaderLen(buf) ==
  CHOOSE i \in Colons(buf) : Cardinality({j \in Colons(buf) : j < i}) = 3

\* Why the receiver drops the datagram in buf before the loss simulator, or
\* "" when it parses.
ParseError(buf) ==
  IF Cardinality(Colons(buf)) < 4 THEN "incomplete header"
  ELSE IF HeaderLen(buf) >= HEADER_SIZE THEN "header too long"
  ELSE IF Sscanf(CStr(SubSeq(buf, 1, HeaderLen(buf)))).fields # 4 THEN "error parsing header"
  ELSE ""

ParsedHeader(buf) == Sscanf(CStr(SubSeq(buf, 1, HeaderLen(buf))))

\* The data_size bytes fwrite takes from buf + header_len.
Payload(buf, header_len, data_size) ==
  [k \in 1 .. data_size |->
     IF header_len + k <= Len(buf) THEN buf[header_len + k] ELSE STALE]

\* ---- inputs of the file transfer
\* Sizes of the input file, around the fragment size.
FileSizes == {1, 999, 1000, 1001, 1999, 2000, 2001, 2500, 3000}
\* The names typed after "ftp ": "x.bin" and "a:b".
FileNames == { <<120, 46, 98, 105, 110>>, <<97, Colon, 98>> }

\* The transfer of file (filename, file_size) is about to start: the sender
\* has read its line and found the file, the receiver is bound and waits.
StartOf(filename, file_size) ==
  /\ sender = [NoSender EXCEPT !.pc = "start", !.filename = filename,
                               !.file_size = file_size]
  /\ receiver = [NoReceiver EXCEPT !.pc = "wait_hs"]
  /\ net = NoNet
  /\ disk = <<>>
  /\ ev = <<>>

\* The conferencing server is not part of a file transfer.
ServerIdle ==
  /\ clients = [i \in Slots |-> NoClient]
  /\ sessions = <<>>
  /\ threads = [t \in Tids |-> NoThread]
  /\ acc = [pc |-> "accept", client_sock |-> 0]
  /\ fdt = [d \in FDs |-> ClosedFd]
  /\ now = 0
  /\ sent = <<>>
  /\ log = <<>>
  /\ mutex = Free
  /\ cursor = [t \in Tids |-> NoCursor]
  /\ wire = NoWire
  /\ Offline

\* sendto(sockfd, ..., &client_addr, addr_len): the reply goes to the host the
\* datagram just received came from.
ReplyTo(nt, src, bytes) ==
  IF src = "sender" THEN [nt EXCEPT !.toR = Tail(@), !.toS = Append(@, bytes)]
  ELSE [nt EXCEPT !.toR = Tail(@), !.toO = Append(@, bytes)]

\* fopen(path, "wb") and fwrite on the files under ./saved/.
Put(dk, path, data) ==
  [q \in (DOMAIN dk) \cup {path} |-> IF q = path THEN data ELSE dk[q]]

\* ---- the file sender (deliver.c)
\* sendto "ftp" (lines 79-85).
SendFtp ==
  /\ sender.pc = "start"
  /\ net' = [net EXCEPT !.toR = Append(@, [src |-> "sender", bytes |-> FTP])]
  /\ sender' = [sender EXCEPT !.pc = "wait_yes"]
  /\ ev' = <<[op |-> "ftp"]>>
  /\ UNCHANGED <<receiver, disk, server, locking, remote>>

\* The reply to "ftp" is not looked at.
RecvYes_AnyReply ==
  /\ sender.pc = "wait_yes"
  /\ net.toS # <<>>
  /\ net' = [net EXCEPT !.toS = Tail(@)]
  /\ sender' = [sender EXCEPT !.total_frag = TotalFrag(sender.file_size),
                              !.frag_no = 1, !.pc = "send"]
  /\ ev' = <<[op |-> "reply", dgram |-> Head(net.toS)]>>
  /\ UNCHANGED <<receiver, disk, server, locking, remote>>

\* recvfrom returns the reply to "ftp" (lines 88-112): anything but "yes"
\* is fatal; else the file is opened and total_frag computed.
RecvYes ==
  /\ sender.pc = "wait_yes"
  /\ net.toS # <<>>
  /\ net' = [net EXCEPT !.toS = Tail(@)]
  /\ LET buf == Cut(Head(net.toS), ReplyBuf - 1)
         total == TotalFrag(sender.file_size)
     IN  IF CStr(buf) # YES
         THEN sender' = [sender EXCEPT !.pc = "failed"]
         ELSE sender' = [sender EXCEPT !.total_frag = total, !.frag_no = 1,
                                       !.pc = IF 1 <= total THEN "send" ELSE "done"]
  /\ ev' = <<[op |-> "reply", dgram |-> Head(net.toS)]>>
  /\ UNCHANGED <<receiver, disk, server, locking, remote>>

\* One pass of the loop body up to sendto (lines 115-156).
SendFragment ==
  /\ sender.pc = "send"
  /\ LET n == DataSize(sender.file_size, sender.total_frag, sender.frag_no)
     IN  /\ net' = [net EXCEPT !.toR = Append(@,
                      [src |-> "sender",
                       bytes |-> Packet(sender.filename, sender.file_size,
                                        sender.total_frag, sender.frag_no, sender.pos)])]
         /\ sender' = [sender EXCEPT !.pc = "wait_ack", !.pos = @ + n,
                                     !.frags = Append(@, <<sender.frag_no, n>>)]
         /\ ev' = <<[op |-> "fragment", frag_no |-> sender.frag_no]>>
  /\ UNCHANGED <<receiver, disk, server, locking, remote>>

\* recvfrom returns a reply to the fragment (lines 158-170): a reply other
\* than "ACK" is reported, and the loop goes on to the next fragment.
RecvAck ==
  /\ sender.pc = "wait_ack"
  /\ net.toS # <<>>
  /\ net' = [net EXCEPT !.toS = Tail(@)]
  /\ sender' = [sender EXCEPT !.frag_no = @ + 1,
                  !.pc = IF sender.frag_no + 1 <= sender.total_frag THEN "send" ELSE "done"]
  /\ ev' = <<[op |-> "reply", dgram |-> Head(net.toS)]>>
  /\ UNCHANGED <<receiver, disk, server, locking, remote>>

\* ---- the file receiver (server.c)
\* The first datagram (lines 74-104): "ftp" is answered with "yes", anything
\* else ends the process.
RecvHandshake ==
  /\ receiver.pc = "wait_hs"
  /\ net.toR # <<>>
  /\ LET buf == Cut(Head(net.toR).bytes, MAXBUFLEN - 1)
     IN  IF CStr(buf) = FTP
         THEN /\ net' = ReplyTo(net, Head(net.toR).src, YES)
              /\ receiver' = [receiver EXCEPT !.pc = "wait_frag"]
              /\ ev' = <<[op |-> "yes"]>>
         ELSE /\ net' = [net EXCEPT !.toR = Tail(@)]
              /\ receiver' = [receiver EXCEPT !.pc = "failed"]
              /\ ev' = <<[op |-> "unexpected initial message"]>>
  /\ UNCHANGED <<sender, disk, server, locking, remote>>

\* The loop body that acknowledges a dropped datagram.
RecvFragment_AckOnDrop(drop, crash) ==
  /\ receiver.pc = "wait_frag"
  /\ net.toR # <<>>
  /\ ~crash
  /\ LET buf == Cut(Head(net.toR).bytes, MAXBUFLEN)
     IN  /\ drop => ParseError(buf) = ""
         /\ net' = ReplyTo(net, Head(net.toR).src, ACK)
         /\ receiver' = [receiver EXCEPT !.acks = @ + 1]
         /\ ev' = <<[op |-> "ack"]>>
  /\ UNCHANGED <<sender, disk, server, locking, remote>>

\* One pass of the loop body (lines 109-197) on the next datagram.  drop is
\* the outcome of the loss simulator (r < 0.01); crash is the outcome of
\* fclose(fp) with fp == NULL.
RecvFragment(drop, crash) ==
  /\ receiver.pc = "wait_frag"
  /\ net.toR # <<>>
  /\ LET buf == Cut(Head(net.toR).bytes, MAXBUFLEN)
         h == ParsedHeader(buf)
         fp1 == IF h.frag_no = 1 THEN h.filename ELSE receiver.fp
         disk1 == IF h.frag_no = 1 THEN Put(disk, h.filename, <<>>) ELSE disk
         last == h.frag_no = h.total_frag
     IN  IF ParseError(buf) # ""
         THEN /\ ~drop /\ ~crash
              /\ net' = [net EXCEPT !.toR = Tail(@)]
              /\ ev' = <<[op |-> "drop", why |-> ParseError(buf)]>>
              /\ UNCHANGED <<receiver, disk>>
         ELSE IF drop
         THEN /\ ~crash
              /\ net' = [net EXCEPT !.toR = Tail(@)]
              /\ ev' = <<[op |-> "drop", why |-> "simulating drop"]>>
              /\ UNCHANGED <<receiver, disk>>
         ELSE /\ crash => (last /\ fp1 = <<>>)
              /\ disk' = IF fp1 = <<>> THEN disk1
                         ELSE Put(disk1, fp1,
                                  disk1[fp1] \o Payload(buf, HeaderLen(buf), h.data_size))
              /\ net' = ReplyTo(net, Head(net.toR).src, ACK)
              /\ receiver' =
                   [receiver EXCEPT
                      !.opens = IF h.frag_no = 1 THEN @ + 1 ELSE @,
                      !.acks = @ + 1,
                      !.got = @ \cup {h.frag_no},
                      !.closes = IF last /\ fp1 # <<>> THEN @ + 1 ELSE @,
                      !.fp = IF last THEN <<>> ELSE fp1,
                      !.pc = IF last THEN (IF crash THEN "failed" ELSE "done")
                             ELSE "wait_frag"]
              /\ ev' = <<[op |-> "ack", frag_no |-> h.frag_no,
                          wrote |-> IF fp1 = <<>> THEN 0 ELSE h.data_size,
                          opened |-> h.frag_no = 1]>>
  /\ UNCHANGED <<sender, server, locking, remote>>

\* ---- a network that delivers every datagram once, in order
InitTransfer ==
  /\ ServerIdle
  /\ \E f \in FileNames, n \in FileSizes : StartOf(f, n)

NextTransfer ==
  \/ SendFtp
  \/ RecvYes
  \/ SendFragment
  \/ RecvAck
  \/ RecvHandshake
  \/ RecvFragment(FALSE, FALSE)

SpecTransfer == InitTransfer /\ [][NextTransfer]_vars

\* ---- a network that loses and duplicates datagrams
\* Datagrams the network duplicates in a run, datagrams of other hosts.
MaxDup == 1
MaxForeign == 1

\* Datagrams of other hosts that reach the port of the receiver: "ftp" with
\* two more bytes after a NUL, "hello", a datagram without a colon, "1:1:",
\* one whose fields are not numbers, one with an empty name.
ForeignDatagrams ==
  { FTP \o <<0, 120>>,
    <<104, 101, 108, 108, 111>>,
    <<Zero + 1, Colon, Zero + 1, Colon>>,
    <<120, Colon, Zero + 1, Colon, Zero + 1, Colon, 102, Colon, 100>>,
    <<Zero + 1, Colon, Zero + 1, Colon, Zero + 1, Colon, Colon, 100>> }

\* A datagram whose fourth ':' is byte HEADER_SIZE: "1:1:1:", a long name, ':'.
LongHeader ==
  <<Zero + 1, Colon, Zero + 1, Colon, Zero + 1, Colon>>
    \o [k \in 1 .. (HEADER_SIZE - 7) |-> 102] \o <<Colon, 100>>

\* Datagrams of other hosts that reach the socket of the sender: "no", "NAK",
\* and "yes" with two more bytes after a NUL.
ForeignReplies == { <<110, 111>>, <<78, 65, 75>>, YES \o <<0, 120>> }

LoseToReceiver ==
  /\ net.toR # <<>>
  /\ net' = [net EXCEPT !.toR = Tail(@)]
  /\ ev' = <<[op |-> "lost"]>>
  /\ UNCHANGED <<sender, receiver, disk, server, locking, remote>>

LoseToSender ==
  /\ net.toS # <<>>
  /\ net' = [net EXCEPT !.toS = Tail(@)]
  /\ ev' = <<[op |-> "lost"]>>
  /\ UNCHANGED <<sender, receiver, disk, server, locking, remote>>

DuplicateToReceiver ==
  /\ net.toR # <<>>
  /\ net.dup < MaxDup
  /\ net' = [net EXCEPT !.toR = <<Head(@)>> \o @, !.dup = @ + 1]
  /\ ev' = <<[op |-> "duplicated"]>>
  /\ UNCHANGED <<sender, receiver, disk, server, locking, remote>>

DuplicateToSender ==
  /\ net.toS # <<>>
  /\ net.dup < MaxDup
  /\ net' = [net EXCEPT !.toS = <<Head(@)>> \o @, !.dup = @ + 1]
  /\ ev' = <<[op |-> "duplicated"]>>
  /\ UNCHANGED <<sender, receiver, disk, server, locking, remote>>

ForeignToReceiver(d) ==
  /\ net.foreign < MaxForeign
  /\ receiver.pc \in {"wait_hs", "wait_frag"}
  /\ net' = [net EXCEPT !.toR = Append(@, [src |-> "other", bytes |-> d]),
                         !.foreign = @ + 1]
  /\ ev' = <<[op |-> "foreign"]>>
  /\ UNCHANGED <<sender, receiver, disk, server, locking, remote>>

ForeignToSender(d) ==
  /\ net.foreign < MaxForeign
  /\ sender.pc \in {"wait_yes", "wait_ack"}
  /\ net' = [net EXCEPT !.toS = Append(@, d), !.foreign = @ + 1]
  /\ ev' = <<[op |-> "foreign"]>>
  /\ UNCHANGED <<sender, receiver, disk, server, locking, remote>>

\* Files of one and of two fragments, over a network that loses and
\* duplicates datagrams, with the loss simulator of the receiver.
InitLossy ==
  /\ ServerIdle
  /\ \E n \in {1, 1001} : StartOf(<<120, 46, 98, 105, 110>>, n)

NextLossy ==
  \/ SendFtp
  \/ RecvYes
  \/ SendFragment
  \/ RecvAck
  \/ RecvHandshake
  \/ \E drop, crash \in BOOLEAN : RecvFragment(drop, crash)
  \/ LoseToReceiver
  \/ LoseToSender
  \/ DuplicateToReceiver
  \/ DuplicateToSender
  \/ \E d \in ForeignReplies : ForeignToSender(d)

SpecLossy == InitLossy /\ [][NextLossy]_vars

\* ---- the fragment loop of the sender on its own
\* Largest file size of SpecFrag.
MaxFileSize == 3001

\* The sender has had its "yes" and is at the top of the for loop.
InitFrag ==
  /\ ServerIdle
  /\ receiver = NoReceiver
  /\ net = NoNet
  /\ disk = <<>>
  /\ ev = <<>>
  /\ \E n \in 1 .. MaxFileSize :
       sender = [NoSender EXCEPT !.pc = "send", !.filename = <<120>>, !.file_size = n,
                                 !.total_frag = TotalFrag(n), !.frag_no = 1]

\* One iteration of the for loop (lines 115-170) whose datagram is
\* acknowledged: data_size is computed, the chunk read, frag_no incremented.
FragmentLoop ==
  /\ sender.pc = "send"
  /\ sender.frag_no <= sender.total_frag
  /\ LET n == DataSize(sender.file_size, sender.total_frag, sender.frag_no)
     IN  sender' = [sender EXCEPT !.pos = @ + n, !.frag_no = @ + 1,
                                  !.frags = Append(@, <<sender.frag_no, n>>)]
  /\ ev' = <<[op |-> "fragment", frag_no |-> sender.frag_no]>>
  /\ UNCHANGED <<receiver, net, disk, server, locking, remote>>

\* The loop condition fails: fclose, "File transfer complete." (lines 172-176).
FragmentLoopEnds ==
  /\ sender.pc = "send"
  /\ sender.frag_no > sender.total_frag
  /\ sender' = [sender EXCEPT !.pc = "done"]
  /\ ev' = <<[op |-> "complete"]>>
  /\ UNCHANGED <<receiver, net, disk, server, locking, remote>>

NextFrag == FragmentLoop \/ FragmentLoopEnds

SpecFrag == InitFrag /\ [][NextFrag]_vars

\* ---- a network that delivers every datagram once, and other hosts
\* Files of one and of two fragments; datagrams of other hosts reach both
\* sockets, and the loss simulator of the receiver runs.
NextForeign ==
  \/ SendFtp
  \/ RecvYes
  \/ SendFragment
  \/ RecvAck
  \/ RecvHandshake
  \/ \E drop, crash \in BOOLEAN : RecvFragment(drop, crash)
  \/ \E d \in ForeignDatagrams \cup {LongHeader} : ForeignToReceiver(d)
  \/ \E d \in ForeignReplies : ForeignToSender(d)

SpecForeign == InitLossy /\ [][NextForeign]_vars

\* ---- an empty input file
\* Files of no byte and of two fragments, with the names of FileNames.
InitEmpty ==
  /\ ServerIdle
  /\ \E f \in FileNames, n \in {0, 1001} : StartOf(f, n)

SpecEmpty == InitEmpty /\ [][NextForeign]_vars

\* ------------------------------------------------------------ properties
ActiveSlots == {i \in Slots : clients[i].active}

SessionIDs == {sessions[k].sessionID : k \in 1 .. Len(sessions)}

Members(k) == Range(sessions[k].members)

NoDuplicates(seq) == \A i, j \in 1 .. Len(seq) : seq[i] = seq[j] => i = j

\* C1 (I5): for every active client C and every session S of the table,
\* C's ID is in S's member list iff S's ID is in C's joined list.
C1_MembershipConsistent ==
  \A i \in ActiveSlots : \A k \in 1 .. Len(sessions) :
    (clients[i].clientID \in Members(k))
      <=> (sessions[k].sessionID \in Range(clients[i].sessions))

\* C2 (I3): every member list holds only IDs of active clients, each at most once.
C2_MembersAreActive ==
  \A k \in 1 .. Len(sessions) :
    /\ \A m \in Members(k) : \E i \in ActiveSlots : clients[i].clientID = m
    /\ NoDuplicates(sessions[k].members)

\* The principal whose connection descriptor number fd names, "" if none.
PeerOf(fd) == IF fd \in DOMAIN fdt /\ fdt[fd].st = "open" THEN fdt[fd].peer ELSE ""

MemberIDs(sid) ==
  UNION {Members(k) : k \in {j \in 1 .. Len(sessions) : sessions[j].sessionID = sid}}

\* The client IDs named by the lines of a log that report a removal.
LeftIDs(lg) ==
  {lg[n][2] : n \in {j \in 1 .. Len(lg) :
      lg[j][1] \in {"left session", "logged out", "disconnected",
                    "Disconnecting client due to inactivity"}}}

\* C3 (I4): no session of the table has zero members; a session leaves the
\* table only in a step that removes its last members, and num_sessions then
\* decreases by one per session removed; NEW_SESS for an ID that is not in the
\* table, when the table is not full, yields a session whose only member is
\* the creator.
C3_NoEmptySession ==
  /\ [](\A k \in 1 .. Len(sessions) : Len(sessions[k].members) > 0)
  /\ [][\A k \in 1 .. Len(sessions) :
          sessions[k].sessionID \notin {sessions'[j].sessionID : j \in 1 .. Len(sessions')}
            => /\ Members(k) \subseteq LeftIDs(log')
               /\ Len(sessions') =
                    Len(sessions) - Cardinality({j \in 1 .. Len(sessions) :
                       sessions[j].sessionID \notin
                         {sessions'[i].sessionID : i \in 1 .. Len(sessions')}})]_vars
  /\ [][\A t \in Tids, sid \in SessionInputs :
          (HandleNewSess(t, sid) /\ sid \notin SessionIDs /\ Len(sessions) < MAX_SESSIONS)
            => /\ Len(sessions') = Len(sessions) + 1
               /\ sessions'[Len(sessions')] =
                    [sessionID |-> sid, members |-> <<threads[t].clientID>>]
               /\ sent' = <<Send(threads[t].sockfd, Reply(NS_ACK, sid))>>]_vars

\* A client has just left a session as its last member, and the session is gone.
C3_Witness ==
  /\ Len(log) = 1
  /\ log[1][1] = "left session"
  /\ log[1][3] \notin SessionIDs
  /\ Len(sessions) = 1

\* C4 (I1): no two active client slots hold the same clientID.
C4_UniqueActiveIDs ==
  \A i, j \in ActiveSlots : clients[i].clientID = clients[j].clientID => i = j

\* A principal has logged in again after one of the earlier handler threads ended.
C4_Witness ==
  /\ Len(log) = 1
  /\ log[1][1] = "logged in"
  /\ \E t, u \in Tids : threads[t].pc = "done" /\ threads[u].pc \notin {"none", "done"}
  /\ \E i \in ActiveSlots : clients[i].clientID = log[1][2]

SlotsOf(id) == {i \in ActiveSlots : clients[i].clientID = id}

\* C5: a LOGIN whose source is the ID of an active client is answered with
\* LO_NAK "Client ID already in use" on the new connection, which is closed;
\* the client table, the session table, the threads and the descriptor of the
\* first login are unchanged.
C5_DuplicateLoginRefused ==
  [][\A in \in LoginInputs, ok \in BOOLEAN, st \in BOOLEAN :
       (acc.pc = "recv" /\ SlotsOf(in[1]) # {} /\ Admit(in[1], in[2], ok, st))
         => /\ sent' = <<Send(acc.client_sock, Reply(LO_NAK, "Client ID already in use"))>>
            /\ fdt'[acc.client_sock].st = "closed"
            /\ clients' = clients
            /\ sessions' = sessions
            /\ threads' = threads
            /\ \A i \in SlotsOf(in[1]) :
                 clients[i].sockfd # acc.client_sock
                   => fdt'[clients[i].sockfd] = fdt[clients[i].sockfd]]_vars

\* The refusal has just been sent while the first login is active.
C5_Witness ==
  /\ Len(sent) = 1
  /\ sent[1].msg = Reply(LO_NAK, "Client ID already in use")
  /\ ActiveSlots # {}
  /\ fdt[sent[1].fd].st = "closed"

\* The (username, password) pairs of the compiled-in table.
UserTable ==
  { <<"jill", "eW94dsol">>, <<"jack", "432wlFd">>, <<"alice", "12345">>,
    <<"bob", "qwerty">> }

BecomesActive(i) == ~clients[i].active /\ clients'[i].active

RefusedWith(text) ==
  /\ sent' = <<Send(acc.client_sock, Reply(LO_NAK, text))>>
  /\ fdt'[acc.client_sock].st = "closed"
  /\ clients' = clients
  /\ sessions' = sessions
  /\ threads' = threads

\* C6 as stated: a record becomes active only through a LOGIN whose pair is
\* in the user table, and every LOGIN whose pair is not in the table is
\* answered with LO_NAK "Invalid username/password", closed, with no change
\* of the tables and no thread.
C6_AsStated ==
  [][/\ \A i \in Slots : BecomesActive(i) =>
          \E in \in UserTable, ok \in BOOLEAN, st \in BOOLEAN :
            Admit(in[1], in[2], ok, st) /\ clients'[i].clientID = in[1]
     /\ \A in \in LoginInputs \ UserTable, ok \in BOOLEAN, st \in BOOLEAN :
          (acc.pc = "recv" /\ Admit(in[1], in[2], ok, st))
            => RefusedWith("Invalid username/password")]_vars

\* C6 amended: as C6, but the LO_NAK of a LOGIN that fails authentication reads
\* "Invalid username/password" only when its source is not the ID of an active
\* client; when it is, the LO_NAK reads "Client ID already in use".
C6_Amended ==
  [][/\ \A i \in Slots : BecomesActive(i) =>
          \E in \in UserTable, ok \in BOOLEAN, st \in BOOLEAN :
            Admit(in[1], in[2], ok, st) /\ clients'[i].clientID = in[1]
     /\ \A in \in LoginInputs \ UserTable, ok \in BOOLEAN, st \in BOOLEAN :
          (acc.pc = "recv" /\ Admit(in[1], in[2], ok, st)) =>
            IF SlotsOf(in[1]) = {}
            THEN RefusedWith("Invalid username/password")
            ELSE RefusedWith("Client ID already in use")]_vars

\* A LOGIN has just been refused for its credentials while a client is active.
C6_Witness ==
  /\ Len(sent) = 1
  /\ sent[1].msg = Reply(LO_NAK, "Invalid username/password")
  /\ ActiveSlots # {}
  /\ fdt[sent[1].fd].st = "closed"

\* A handler thread that holds a frame.
Holding == {t \in Tids : threads[t].pc = "got"}

AllMessages == MessageInputs(SessionInputs)

\* Number of send_message calls of a step that name descriptor fd.
Writes(out, fd) == Cardinality({k \in 1 .. Len(out) : out[k].fd = fd})

\* C7: a MESSAGE from a member of session S is written exactly once to the
\* handle of every active client that is a member of S, the sender's handle
\* among them, and nothing else is written.
C7_BroadcastOnce ==
  [][\A t \in Holding, m \in AllMessages :
       (threads[t].clientID \in MemberIDs(m.session) /\ HandleMessage(t, m))
         => LET to == {i \in ActiveSlots : clients[i].clientID \in MemberIDs(m.session)}
            IN  /\ \A i \in to : Writes(sent', clients[i].sockfd) = 1
                /\ Len(sent') = Cardinality(to)
                /\ \A k \in 1 .. Len(sent') :
                     sent'[k].msg = [m EXCEPT !.source = threads[t].clientID]]_vars

\* C8: a MESSAGE naming session S is written only to connections of principals
\* that are members of S.
C8_Isolation ==
  [][\A t \in Holding, m \in AllMessages :
       HandleMessage(t, m)
         => \A k \in 1 .. Len(sent') :
              fdt[sent'[k].fd].st = "open" => PeerOf(sent'[k].fd) \in MemberIDs(m.session)]_vars

\* C9: every MESSAGE written carries as source the principal that logged in
\* over the connection the frame came from.
C9_SourceIsSender ==
  [][\A t \in Holding, m \in AllMessages :
       HandleMessage(t, m)
         => \A k \in 1 .. Len(sent') : sent'[k].msg.source = threads[t].from]_vars

\* C10: JOIN naming an ID that is not in the session table is answered with
\* JN_NAK "<sid>: session not found"; the session table, every joined list and
\* active flag, the descriptor table are unchanged and the thread goes on reading.
C10_JoinUnknownSession ==
  [][\A t \in Holding, sid \in SessionInputs :
       (sid \notin SessionIDs /\ HandleJoin(t, sid))
         => /\ sent' = <<Send(threads[t].sockfd,
                              Reply(JN_NAK, <<sid, ": session not found">>))>>
            /\ sessions' = sessions
            /\ \A i \in Slots : /\ clients'[i].sessions = clients[i].sessions
                                /\ clients'[i].active = clients[i].active
                                /\ clients'[i].sockfd = clients[i].sockfd
            /\ fdt' = fdt
            /\ threads'[t].pc = "recv"]_vars

\* The refusal has just been sent to a client while another session exists.
C10_Witness ==
  /\ Len(sent) = 1
  /\ sent[1].msg.type = JN_NAK
  /\ sent[1].msg.data \in {<<sid, ": session not found">> : sid \in SessionInputs}
  /\ Len(sessions) = 1
  /\ \E i \in ActiveSlots : clients[i].sockfd = sent[1].fd /\ fdt[sent[1].fd].st = "open"

\* The members of the session named sid in table ss.
MembersOf(ss, sid) ==
  UNION {Range(ss[k].members) : k \in {j \in 1 .. Len(ss) : ss[j].sessionID = sid}}

IDsOf(ss) == {ss[k].sessionID : k \in 1 .. Len(ss)}

\* C11 as stated: a JOIN naming an ID that is not in the session table brings
\* the session into the table with the joining client as a member.
C11_AsStated ==
  [][\A t \in Holding, sid \in SessionInputs :
       (sid \notin SessionIDs /\ HandleJoin(t, sid))
         => /\ sid \in IDsOf(sessions')
            /\ threads[t].clientID \in MembersOf(sessions', sid)]_vars

\* C11 amended: a session ID enters the table only in a step that processes
\* NEW_SESS for that ID; a JOIN never changes the set of session IDs, and a
\* JOIN naming an ID that is not in the table is answered with JN_NAK.
C11_Amended ==
  [][/\ \A sid \in IDsOf(sessions') \ SessionIDs :
          \E t \in Holding : HandleNewSess(t, sid)
     /\ \A t \in Holding, sid \in SessionInputs :
          HandleJoin(t, sid)
            => /\ IDsOf(sessions') = SessionIDs
               /\ sid \notin SessionIDs
                    => /\ Len(sent') = 1
                       /\ sent'[1].msg.type = JN_NAK]_vars

\* A JOIN has just been refused while the session table is empty.
C11_Witness ==
  /\ Len(sent) = 1
  /\ sent[1].msg.type = JN_NAK
  /\ sent[1].msg.data \in {<<sid, ": session not found">> : sid \in SessionInputs}
  /\ sessions = <<>>
  /\ ActiveSlots # {}

\* Number of entries of seq equal to x.
Count(seq, x) == Cardinality({k \in 1 .. Len(seq) : seq[k] = x})

\* The member list find_session selects for sid in table ss (<<>> if none).
MemberList(ss, sid) ==
  IF find_session(ss, sid) < 0 THEN <<>> ELSE ss[find_session(ss, sid) + 1].members

\* Thread t serves the active record of its own login.
Own(t) ==
  /\ clients[threads[t].my_index].active
  /\ clients[threads[t].my_index].clientID = threads[t].clientID
  /\ clients[threads[t].my_index].sockfd = threads[t].sockfd

\* C12: a JOIN of an existing session that a logged-in client sends and that is
\* answered with JN_ACK leaves the client's ID exactly once in the session's
\* member list and the session ID exactly once in the client's joined list; when
\* both already held (a second JOIN) the reply is JN_ACK and the session table
\* and the joined list are unchanged.
C12_JoinIdempotent ==
  [][\A t \in Holding, sid \in SessionInputs :
       (Own(t) /\ sid \in SessionIDs /\ HandleJoin(t, sid))
         => LET me == threads[t].my_index
                id == threads[t].clientID
            IN  /\ (Len(sent') = 1 /\ sent'[1].msg.type = JN_ACK)
                      => /\ Count(MemberList(sessions', sid), id) = 1
                         /\ Count(clients'[me].sessions, sid) = 1
                /\ (id \in MemberIDs(sid) /\ sid \in Range(clients[me].sessions))
                      => /\ sent' = <<Send(threads[t].sockfd, Reply(JN_ACK, sid))>>
                         /\ sessions' = sessions
                         /\ clients'[me].sessions = clients[me].sessions]_vars

\* C13: a NEW_SESS of a logged-in client that succeeds (the ID is not in the
\* table and the table is not full) appends the session with the creator as its
\* only member, puts the ID into the creator's joined list and replies NS_ACK
\* "<sid>"; a JOIN of a session whose member list is <<first>> by a second
\* logged-in client replies JN_ACK and makes the member list <<first, second>>.
C13_CreateThenJoin ==
  [][\A t \in Holding, sid \in SessionInputs :
       LET me == threads[t].my_index
           id == threads[t].clientID
       IN  /\ (Own(t) /\ sid \notin SessionIDs /\ Len(sessions) < MAX_SESSIONS
                 /\ HandleNewSess(t, sid))
                => /\ sessions' = Append(sessions, [sessionID |-> sid, members |-> <<id>>])
                   /\ Count(clients'[me].sessions, sid) = 1
                   /\ sent' = <<Send(threads[t].sockfd, Reply(NS_ACK, sid))>>
           /\ (Own(t) /\ Len(MemberList(sessions, sid)) = 1
                 /\ MemberList(sessions, sid)[1] # id /\ HandleJoin(t, sid))
                => /\ sent' = <<Send(threads[t].sockfd, Reply(JN_ACK, sid))>>
                   /\ MemberList(sessions', sid) = <<MemberList(sessions, sid)[1], id>>]_vars

\* C14: NEW_SESS naming an ID that is in the session table, or arriving when
\* the table holds MAX_SESSIONS sessions, is answered with JN_NAK "Failed to
\* create session <sid>"; the session table (its length and every member list)
\* and every joined list and active flag are unchanged.
C14_NewSessFails ==
  [][\A t \in Holding, sid \in CapInputs :
       ((sid \in SessionIDs \/ Len(sessions) >= MAX_SESSIONS) /\ HandleNewSess(t, sid))
         => /\ sent' = <<Send(threads[t].sockfd,
                              Reply(JN_NAK, <<"Failed to create session ", sid>>))>>
            /\ sessions' = sessions
            /\ \A i \in Slots : /\ clients'[i].sessions = clients[i].sessions
                                /\ clients'[i].active = clients[i].active
            /\ threads'[t].pc = "recv"]_vars

\* The refusal has just been sent for a name that is not in the full table.
C14_Witness ==
  /\ Len(sent) = 1
  /\ sent[1].msg.type = JN_NAK
  /\ \E sid \in CapInputs \ SessionIDs :
       sent[1].msg.data = <<"Failed to create session ", sid>>
  /\ Len(sessions) = MAX_SESSIONS

\* The principal id has joined sid: by the session's member list, or by the
\* joined list of an active record of that principal.
HasJoined(id, sid) ==
  \/ id \in MemberIDs(sid)
  \/ \E i \in ActiveSlots : clients[i].clientID = id /\ sid \in Range(clients[i].sessions)

\* C15: a LEAVE_SESS never writes a frame; when it names a session its sender
\* has not joined, the session table and every client's joined list are unchanged.
C15_LeaveNotJoined ==
  [][\A t \in Holding, sid \in SessionInputs :
       HandleLeave(t, sid)
         => /\ sent' = <<>>
            /\ ~HasJoined(threads[t].clientID, sid)
                 => /\ sessions' = sessions
                    /\ \A i \in Slots : clients'[i].sessions = clients[i].sessions]_vars

\* The state a termination path must leave for principal id, whose record is
\* slot i and whose descriptor is fd.
Terminated(id, i, fd) ==
  /\ \A k \in 1 .. Len(sessions') : id \notin Range(sessions'[k].members)
  /\ clients'[i].sessions = <<>>
  /\ ~clients'[i].active
  /\ fdt'[fd].st = "closed"
  /\ find_client_by_id(clients', id) = -1

\* C16: at the end of the critical section of EXIT, of the abrupt-disconnect
\* cleanup of a record that is active, and of an eviction, the client's ID is
\* in no member list, its joined list is empty, its record is inactive, its
\* descriptor is closed and no active record holds its ID (it can log in again).
C16_CleanTermination ==
  [][/\ \A t \in Tids :
          (HandleExit(t) \/ (clients[threads[t].my_index].active /\ HandlerCleanup(t)))
            => Terminated(threads[t].clientID, threads[t].my_index, threads[t].sockfd)
     /\ inactivity_monitor
          => \A i \in Slots :
               (clients[i].active /\ ~clients'[i].active)
                 => Terminated(clients[i].clientID, i, clients[i].sockfd)]_vars

\* now - last_active of slot i exceeds the threshold.
Idle(i) == clients[i].active /\ now - clients[i].last_active > INACTIVITY_THRESHOLD

\* C17: an active client whose idle time exceeds 60 seconds is eventually
\* (by the monitor's next pass) inactive, unless a frame of its handler has
\* renewed last_active; whatever the other threads do.
C17_BoundedEviction ==
  \A i \in Slots : Idle(i) ~> ~Idle(i)

\* C18: a pass of the monitor deactivates only records whose idle time
\* now - last_active exceeds 60 seconds and changes no other record; last_active
\* is the time of the login or of the last frame the handler processed under
\* the lock.
C18_OnlyIdleEvicted ==
  [][/\ inactivity_monitor
          => \A i \in Slots :
               IF Idle(i) THEN ~clients'[i].active ELSE clients'[i] = clients[i]
     /\ \A i \in Slots : BecomesActive(i) => clients'[i].last_active = now
     /\ \A t \in Holding :
          threads'[t].pc # "got" => clients'[threads[t].my_index].last_active = now]_vars

\* A pass has just evicted one client and kept another whose idle time is
\* exactly the threshold.
C18_Witness ==
  /\ Len(log) = 1
  /\ log[1][1] = "Disconnecting client due to inactivity"
  /\ \E i \in ActiveSlots : now - clients[i].last_active = INACTIVITY_THRESHOLD

\* Descriptor number threads[t].sockfd still names the open connection over
\* which thread t's client logged in.
OwnsHandle(t) ==
  /\ ~BadFd(fdt, threads[t].sockfd)
  /\ fdt[threads[t].sockfd].peer = threads[t].clientID

\* C19: a handler thread receives a frame from, writes a reply to and closes
\* its descriptor number only while that number still names its own open
\* connection: never after another thread has closed it, nor after accept has
\* handed the number to a new connection.
C19_ExclusiveOwnership ==
  [][\A t \in Tids :
       /\ (threads[t].pc = "recv" /\ threads'[t].pc = "got") => OwnsHandle(t)
       /\ (threads[t].pc = "got" /\ threads'[t].pc # "got"
             /\ \E k \in 1 .. Len(sent') : sent'[k].fd = threads[t].sockfd)
            => OwnsHandle(t)
       /\ (HandleExit(t) \/ (clients[threads[t].my_index].active /\ HandlerCleanup(t)))
            => OwnsHandle(t)]_vars

\* Thread t is still running for a client whose record is no longer active:
\* the record was evicted while the thread was in recv_message or waiting for
\* clients_mutex.
Evicted(t) ==
  /\ threads[t].pc \in {"recv", "got", "closed"}
  /\ ~clients[threads[t].my_index].active
  /\ clients[threads[t].my_index].clientID = threads[t].clientID

\* The registries as far as membership goes: the session table and, per
\* record, everything except the last_active stamp.
Registries(cl, ss) ==
  <<ss, [i \in Slots |-> <<cl[i].active, cl[i].clientID, cl[i].sockfd, cl[i].sessions>>]>>

\* C20: once a client's record has been evicted, no step of its handler thread
\* changes the session registry or any client record's active flag, identity,
\* descriptor or joined list.
C20_NoMutationAfterEviction ==
  [][\A t \in Tids :
       (Evicted(t) /\ threads'[t] # threads[t])
         => Registries(clients', sessions') = Registries(clients, sessions)]_vars

\* The broadcasts written to descriptor fd, in the order of the writes.
WireOf(fd) == wire.at[fd]

Broadcasting == {t \in Tids : threads[t].pc = "broadcast"}

\* C21: broadcasts are atomic and consistently ordered.  At most one handler
\* is inside broadcast_message at a time, on every descriptor the frames of one
\* broadcast are not followed by frames of an earlier one, and two descriptors
\* that both carry two broadcasts carry them in the same order.
C21_BroadcastsSerialised ==
  /\ Cardinality(Broadcasting) <= 1
  /\ \A f, g \in FDs :
       \A i, j \in 1 .. Len(WireOf(f)) : \A k, l \in 1 .. Len(WireOf(g)) :
         (i < j /\ k < l /\ WireOf(f)[i] # WireOf(f)[j])
           => ~(WireOf(f)[i] = WireOf(g)[l] /\ WireOf(f)[j] = WireOf(g)[k])

\* Two descriptors have each received the frames of the same two broadcasts,
\* sent by two different handlers.
C21_Witness ==
  /\ \A f \in FDs : {1, 2} \subseteq Range(WireOf(f))
  /\ \E t, u \in Tids : t # u /\ threads[t].pc = "recv" /\ threads[u].pc = "broadcast"
                         /\ cursor[u].b = 3

\* C22: every read of the client table a thread acts on is made with the mutex
\* held by that thread: the first statements of client_thread, which copy
\* sockfd and clientID out of clients[my_index], run with the mutex held by
\* the thread itself.
C22_TablesUnderLock ==
  [][\A t \in Tids : ThreadStart(t) => mutex = HandlerOf(t)]_vars

\* C23: stop and wait.  The sender leaves the wait for the acknowledgement of
\* fragment n (to send fragment n+1 or to finish) only on a reply that is the
\* 3 bytes ACK.
C23_StopAndWait ==
  [][(sender.pc = "wait_ack" /\ sender'.pc \in {"send", "done"})
       => Head(net.toS) = ACK]_vars

\* C24: a reply other than ACK makes the sender transmit the same fragment
\* again: the same frag_no, from the same offset of the file.
C24_Retransmits ==
  [][(sender.pc = "wait_ack" /\ net.toS # <<>> /\ Head(net.toS) # ACK
        /\ sender' # sender)
       => (sender'.pc = "send" /\ sender'.frag_no = sender.frag_no
             /\ sender'.pos = sender.pos - sender.frags[Len(sender.frags)][2])]_vars

\* The sender waits for an acknowledgement and the receiver for a fragment,
\* and no datagram is in flight.
Stalled ==
  /\ sender.pc = "wait_ack"
  /\ receiver.pc = "wait_frag"
  /\ net.toR = <<>>
  /\ net.toS = <<>>

\* C25: loss recovery.  After a fragment or an acknowledgement is lost the
\* transfer still completes: sender and receiver never both wait for a
\* datagram that nobody will send.
C25_LossRecovery == ~Stalled

\* C26: the receiver is idempotent per fragment.  A fragment whose frag_no has
\* been acknowledged before is acknowledged again without a write and without
\* opening the file again.
C26_IdempotentReceiver ==
  [][(receiver.pc = "wait_frag" /\ receiver'.acks = receiver.acks + 1
        /\ ev'[1].frag_no \in receiver.got)
       => (disk' = disk /\ receiver'.opens = receiver.opens)]_vars

\* The transfer is over on both sides.
TransferDone == sender.pc = "done" /\ receiver.pc = "done"

\* The bytes of the output file ./saved/<name>, <<>> when there is no such file.
Saved(name) == IF name \in DOMAIN disk THEN disk[name] ELSE <<>>

\* C27: over a network that delivers every datagram once, a file of N > 0
\* bytes is sent as ceil(N / 1000) fragments numbered 1, 2, ... in this order,
\* each acknowledged once, and the output file ./saved/<filename> holds the
\* bytes of the input file.
C27_LosslessTransfer ==
  TransferDone =>
    /\ Len(sender.frags) = (sender.file_size + DATA_SIZE - 1) \div DATA_SIZE
    /\ \A k \in 1 .. Len(sender.frags) : sender.frags[k][1] = k
    /\ receiver.acks = Len(sender.frags)
    /\ Saved(sender.filename) = Chunk(0, sender.file_size)

RECURSIVE SumSizes(_)
SumSizes(fr) == IF fr = <<>> THEN 0 ELSE fr[1][2] + SumSizes(Tail(fr))

\* C28: fragmentation arithmetic.  total_frag is ceil(N / 1000); the fragments
\* are numbered from 1 without gaps up to total_frag; all but the last carry
\* 1000 bytes, the last carries N mod 1000 bytes when that is not zero and
\* 1000 otherwise; at the end the sizes add up to N.
C28_Fragmentation ==
  LET N == sender.file_size
      fr == sender.frags
  IN  /\ sender.total_frag * DATA_SIZE >= N
      /\ (sender.total_frag - 1) * DATA_SIZE < N
      /\ \A k \in 1 .. Len(fr) :
           /\ fr[k][1] = k
           /\ k <= sender.total_frag
           /\ k < sender.total_frag => fr[k][2] = DATA_SIZE
           /\ k = sender.total_frag =>
                fr[k][2] = (IF N % DATA_SIZE # 0 THEN N % DATA_SIZE ELSE DATA_SIZE)
      /\ sender.pc = "done" => (Len(fr) = sender.total_frag /\ SumSizes(fr) = N)

\* A file of 1001 bytes has gone out as fragments of 1000 bytes and of 1 byte,
\* and one of 1000 bytes would go out as a single fragment.
C28_Witness ==
  /\ sender.pc = "done"
  /\ sender.file_size = DATA_SIZE + 1
  /\ sender.frags = << <<1, DATA_SIZE>>, <<2, 1>> >>

\* C29 as stated: handshake gating.  The sender leaves the wait for the reply
\* to "ftp" towards the fragment loop exactly when the reply is the datagram
\* "yes", and fails otherwise, with no fragment sent; the receiver leaves the
\* wait for the first datagram with the reply "yes" exactly when that datagram
\* is "ftp", and otherwise ends without a reply and without a file.
C29_AsStated ==
  [][/\ (sender.pc = "wait_yes" /\ sender'.pc # "wait_yes") =>
          /\ sender.frags = <<>> /\ sender'.frags = <<>>
          /\ sender'.pc = (IF Head(net.toS) = YES THEN "send" ELSE "failed")
     /\ (sender.pc = "failed" => sender'.frags = <<>>)
     /\ (receiver.pc = "wait_hs" /\ receiver'.pc # "wait_hs") =>
          IF Head(net.toR).bytes = FTP
          THEN receiver'.pc = "wait_frag" /\ net' = ReplyTo(net, Head(net.toR).src, YES)
          ELSE /\ receiver'.pc = "failed" /\ disk' = disk
               /\ net'.toS = net.toS /\ net'.toO = net.toO
     /\ (receiver.pc = "failed" => (receiver' = receiver /\ disk' = disk))]_vars

\* The datagram d reads as the string str in a buffer of n bytes: its bytes
\* before the first NUL, or all of them, are those of str.
ReadsAs(d, n, str) == CStr(Cut(d, n)) = str

\* C29: handshake gating, with a datagram compared as the NUL-terminated
\* string it holds.  The sender goes on to the fragment loop exactly when the
\* reply reads as "yes", and fails otherwise, with no fragment sent before or
\* after; the receiver replies "yes" exactly when the first datagram reads as
\* "ftp", and otherwise ends without a reply and without a file.
C29_Amended ==
  [][/\ (sender.pc = "wait_yes" /\ sender'.pc # "wait_yes") =>
          /\ sender.frags = <<>> /\ sender'.frags = <<>>
          /\ sender'.pc = (IF ReadsAs(Head(net.toS), ReplyBuf - 1, YES)
                           THEN "send" ELSE "failed")
     /\ (sender.pc = "failed" => sender'.frags = <<>>)
     /\ (receiver.pc = "wait_hs" /\ receiver'.pc # "wait_hs") =>
          IF ReadsAs(Head(net.toR).bytes, MAXBUFLEN - 1, FTP)
          THEN receiver'.pc = "wait_frag" /\ net' = ReplyTo(net, Head(net.toR).src, YES)
          ELSE /\ receiver'.pc = "failed" /\ disk' = disk
               /\ net'.toS = net.toS /\ net'.toO = net.toO
     /\ (receiver.pc = "failed" => (receiver' = receiver /\ disk' = disk))]_vars

\* The receiver has answered "ftp" with "yes", and the sender has failed on a
\* reply that is not "yes" without sending a fragment.
C29_Witness ==
  /\ sender.pc = "failed"
  /\ sender.frags = <<>>
  /\ receiver.pc = "wait_frag"
  /\ net.foreign = 1

\* The receiver has taken the datagram at the head of its queue in this step.
ReceiverTakes ==
  /\ receiver.pc = "wait_frag"
  /\ net.toR # <<>>
  /\ net'.toR = Tail(net.toR)
  /\ ev'[1].op \in {"drop", "ack"}

\* C30: a datagram the receiver drops has no effect.  When the datagram has
\* fewer than four ':' bytes, a header of 512 bytes or more, or header fields
\* that do not parse, or when the loss simulator selects it, no datagram is
\* sent, no file is written, opened or closed, and the receiver stays in the
\* fragment loop with its state unchanged.
C30_DropHasNoEffect ==
  [][(ReceiverTakes /\ (ParseError(Cut(Head(net.toR).bytes, MAXBUFLEN)) # ""
                         \/ ev'[1].op = "drop"))
       => /\ receiver' = receiver
          /\ disk' = disk
          /\ net'.toS = net.toS
          /\ net'.toO = net.toO]_vars

\* In the middle of a transfer, with the output file open, the receiver has
\* just dropped a datagram whose header is too long.
C30_Witness ==
  /\ ev = <<[op |-> "drop", why |-> "header too long"]>>
  /\ receiver.pc = "wait_frag"
  /\ receiver.fp # <<>>
  /\ receiver.acks = 1

\* The header of the datagram the receiver takes next.
NextHeader == ParsedHeader(Cut(Head(net.toR).bytes, MAXBUFLEN))

\* The receiver processes a valid fragment that is not dropped.
Processes ==
  /\ receiver.pc = "wait_frag"
  /\ receiver'.acks = receiver.acks + 1

\* C31: the receiver goes INIT -> WAIT_HS -> WAIT_FRAG -> (WAIT_FRAG | DONE),
\* leaving WAIT_HS with "yes" (or by the exit on a first datagram that is not
\* "ftp").  It reaches DONE exactly when it processes a valid, non-dropped
\* fragment with frag_no == total_frag, and the output file opened for the
\* transfer is then closed, once.
C31_ReceiverDone ==
  [][/\ receiver'.pc # receiver.pc
          => <<receiver.pc, receiver'.pc>> \in
               { <<"wait_hs", "wait_frag">>, <<"wait_hs", "failed">>,
                 <<"wait_frag", "done">> }
     /\ receiver'.pc = "done" /\ receiver.pc # "done"
          => /\ Processes
             /\ NextHeader.frag_no = NextHeader.total_frag
             /\ receiver'.closes = 1
             /\ receiver'.opens >= 1
             /\ receiver'.fp = <<>>
     /\ Processes /\ NextHeader.frag_no = NextHeader.total_frag
          => receiver'.pc = "done"]_vars

\* A datagram of the sender that is a fragment is in flight.
FragmentInFlight ==
  \E k \in 1 .. Len(net.toR) : net.toR[k].src = "sender" /\ net.toR[k].bytes # FTP

\* C32: for an empty input file the sender computes total_frag = 0 and sends
\* no fragment after the handshake: it never enters the loop body, and every
\* datagram it has sent is the "ftp" of the handshake.
C32_EmptyFile ==
  sender.file_size = 0
    => /\ sender.total_frag = 0
       /\ sender.frags = <<>>
       /\ sender.pc \in {"start", "wait_yes", "failed", "done"}
       /\ ~FragmentInFlight
       /\ receiver.acks = 0

\* The handshake of an empty file is over and the sender has finished.
C32_Witness ==
  /\ sender.file_size = 0
  /\ sender.pc = "done"
  /\ receiver.pc = "wait_frag"
  /\ ev = <<[op |-> "reply", dgram |-> YES]>>

\* The payload of the datagram the receiver takes next.
NextPayload ==
  LET buf == Cut(Head(net.toR).bytes, MAXBUFLEN)
  IN  Payload(buf, HeaderLen(buf), NextHeader.data_size)

\* The bytes data are the end of the bytes file.
EndsWith(file, data) ==
  /\ Len(data) <= Len(file)
  /\ SubSeq(file, Len(file) - Len(data) + 1, Len(file)) = data

\* C39: the receiver acknowledges a fragment only after it has appended the
\* payload of the fragment to an open output file: when ACK is sent a file is
\* open (it was, or this fragment opened it) and the file ends with the
\* payload.
C39_AckAfterWrite ==
  [][Processes
       => /\ receiver.fp # <<>> \/ NextHeader.frag_no = 1
          /\ \E path \in DOMAIN disk' : EndsWith(disk'[path], NextPayload)]_vars

\* Slot i still holds the record handler t was spawned for.
OwnRecord(t, i) ==
  /\ i = threads[t].my_index
  /\ clients[i].clientID = threads[t].clientID
  /\ clients[i].sockfd = threads[t].sockfd

\* C34: every frame a handler receives sets the last_active of the handler's
\* client to the current time; a frame of unknown type has no other effect:
\* no reply, no change of a session or of any other field of a client record,
\* the connection stays open and the handler goes back to recv_message.
C34_FrameTouches ==
  [][\A t \in Tids :
       /\ (threads[t].pc = "got" /\ threads'[t] # threads[t])
            => /\ OwnRecord(t, threads[t].my_index)
               /\ clients'[threads[t].my_index].last_active = now
       /\ \A ty \in OtherTypes :
            HandleUnknown(t, ty)
              => /\ sent' = <<>>
                 /\ sessions' = sessions
                 /\ fdt' = fdt
                 /\ threads'[t].pc = "recv"
                 /\ \A i \in Slots :
                      clients'[i] # clients[i]
                        => /\ OwnRecord(t, i)
                           /\ clients'[i] = [clients[i] EXCEPT !.last_active = now]]_vars

\* C35: a MESSAGE frame is delivered to the members of session S only if its
\* sender is a member of S: a MESSAGE naming S from a client that is not in
\* the member list of S causes no frame to be written.
C35_OnlyMembersSend ==
  [][\A t \in Holding, m \in AllMessages :
       (HandleMessage(t, m) /\ threads[t].clientID \notin MemberIDs(m.session))
         => sent' = <<>>]_vars

\* C36: the steps a handler takes on a frame it has read, and its cleanup
\* after recv_message has failed, affect only the client the handler was
\* spawned for: a record that is active and is not the handler's own stays
\* active, keeps its joined list and keeps its descriptor open.
C36_CleanupOwnClient ==
  [][\A t \in Tids :
       (threads[t].pc \in {"got", "closed"} /\ threads'[t] # threads[t])
         => \A i \in Slots :
              (clients[i].active /\ ~OwnRecord(t, i))
                => /\ clients'[i].active
                   /\ clients'[i].sessions = clients[i].sessions
                   /\ fdt'[clients[i].sockfd] = fdt[clients[i].sockfd]]_vars

\* The threads that lock the mutex.
Lockers == {MainThread, MonitorThread} \cup {HandlerOf(t) : t \in Tids}

Answered(k) ==
  \/ backlog.served > k
  \/ backlog.served = k /\ acc.pc = "accept"

\* C38: a connection whose peer sends a LOGIN frame is eventually answered
\* with LO_ACK or LO_NAK, whatever the other connections do, also when an
\* earlier connection has been accepted and never sends its first frame.
C38_AdmissionLiveness ==
  \A k \in 1 .. MaxConns :
    (Len(backlog.made) >= k /\ backlog.made[k] = "login") ~> Answered(k)


\* The client has been admitted: the server has created its handler thread.
Admitted == \E t \in Tids : threads[t].pc # "none" /\ threads[t].clientID = conn.login[1]

\* The server has closed the connection of the admitted client, and the
\* receive thread of the client has noticed it.
LostConnection ==
  /\ Admitted
  /\ conn.st = "open"
  /\ BadFd(fdt, conn.fd)
  /\ client.recv \in {"lost", "exited"}

SlotsOfClient ==
  {i \in Slots : /\ clients[i].active
                 /\ clients[i].clientID = conn.login[1]
                 /\ clients[i].sockfd = conn.fd}

\* The client is logged in on an open connection, no frame is in flight in
\* either direction, and neither side is in the middle of a step.
Settled ==
  /\ client.pc = "prompt"
  /\ client.recv = "wait"
  /\ client.loggedIn = 1
  /\ conn.st = "open"
  /\ ~BadFd(fdt, conn.fd)
  /\ sent = <<>>
  /\ conn.toServer = <<>>
  /\ conn.toClient = <<>>
  /\ SlotsOfClient # {}
  /\ \A t \in Tids : threads[t].pc \in {"none", "recv"}

\* C40: once every frame in flight has been processed, joined_sessions of the
\* client holds exactly the sessions of the joined list the server keeps for
\* it, and active_session is empty or one of them.
C40_ViewMirrorsServer ==
  Settled =>
    \A i \in SlotsOfClient :
      /\ Range(client.joined_sessions) = Range(clients[i].sessions)
      /\ client.active_session \in Range(client.joined_sessions) \cup {""}
====
